---- MODULE Spec2Model ----
(***************************************************************************)
(* Real-time aggregation and selective-broadcast engine of the GFE API     *)
(* gateway backend: SocketManager (rooms, reference counts, raw sensor     *)
(* push, carry-forward power-flow aggregation), the shared power-flow      *)
(* utility and PowerFlowSocketService.                                     *)
(*                                                                         *)
(* Numbers are fixed-point integers in units of 0.001 W, so that           *)
(* Math.round(x * 100) / 100 is rounding to a multiple of 10 units.        *)
(***************************************************************************)
EXTENDS Integers, Sequences, FiniteSets

VARIABLES
    connectedClients,      \* SocketManager.connectedClients (socket ids)
    clientCount,           \* SocketManager.clientCount
    adapterRooms,          \* io.sockets.adapter.rooms: room -> set of socket ids
    sensorRefCounts,       \* SocketManager.sensorRefCounts: deviceName -> count
    previousPowerFlowData, \* SocketManager.previousPowerFlowData
    emitted,               \* emit calls made by the handler that ran last
    pfLast,                \* last snapshot built by SocketManager.processPowerFlowData
    updLast,               \* last payload built by PowerFlowSocketService
    everJoined,            \* history: rooms each connected socket has joined
    expectedRef,           \* history: count obtained from the join/leave events
    lastSums,              \* history: per-category sums of the last aggregated batch
    lastContrib,           \* history: categories with data in that batch
    lastOp,                \* history: the event handled last
    blueprintDocs,         \* blueprint directory: reference -> document
    blueprintCache,        \* DeviceTableService.blueprintCache
    physTables,            \* global database: table name -> column set
    deviceTables,          \* rows of the registry table device_tables
    lastCall,              \* history: the table-service call made last
    lastReconcile,         \* history: the reconciliation run made last
    cachedAt,              \* history: reference -> instant its blueprint was cached
    now,                   \* the clock of the host
    powerFlowRows,         \* rows of the table power_flow_analysis
    nextRowId,             \* AUTOINCREMENT counter of power_flow_analysis
    historyCall,           \* the getPowerFlowHistory call in progress
    lastCleanup,           \* history: the cleanupOldData call made last
    shutdownStage,         \* position of gracefulShutdown
    dbState,               \* the global database handle: open, closing, closed
    natsConnected,         \* NatsClient.connected
    subscriptions,         \* NatsClient.subscriptions: the subjects subscribed
    devicesList,           \* devices_list of the device list file
    nc,                    \* NatsClient.nc: "null" or the connection
    connectionPromise,     \* NatsClient.connectionPromise: null, or its state
    attemptsInFlight,      \* calls of _connect waiting for connect() of the library
    waiting,               \* connect() callers waiting for the pending promise
    draining,              \* disconnect() is waiting for nc.drain() and nc.close()
    subscribers,           \* subscription objects whose message loop is running
    nextSubId,             \* history: number of the next subscription object
    lastConnect,           \* history: the connect() call resolved last
    stopped,               \* history: subscriptions registered before an unsubscribe
    invoked                \* history: subscriptions whose callback the last message ran

socketVars == <<connectedClients, clientCount, adapterRooms, sensorRefCounts,
                previousPowerFlowData, emitted, pfLast, updLast, everJoined,
                expectedRef, lastSums, lastContrib, lastOp>>

tableVars == <<blueprintDocs, blueprintCache, physTables, deviceTables, lastCall,
               lastReconcile, cachedAt>>

historyVars == <<now, powerFlowRows, nextRowId, historyCall, lastCleanup>>

shutdownVars == <<shutdownStage, dbState, natsConnected, subscriptions>>

configVars == <<devicesList>>

busVars == <<nc, connectionPromise, attemptsInFlight, waiting, draining,
             subscribers, nextSubId, lastConnect, stopped, invoked>>

\* The state outside SocketManager and PowerFlowSocketService.
nonSocketVars == <<tableVars, historyVars, shutdownVars, configVars, busVars>>

\* The state outside DeviceTableService and AutoTableCreationService.
nonTableVars == <<socketVars, historyVars, shutdownVars, configVars, busVars>>

\* The state outside DatabaseService and SQLiteService.
nonHistoryVars == <<socketVars, tableVars, shutdownVars, configVars, busVars>>

\* The state outside the process lifecycle and the bus client.
nonShutdownVars == <<socketVars, tableVars, historyVars, configVars, busVars>>

\* The state outside DeviceController and DeviceTableService.
nonDeviceVars == <<socketVars, historyVars, shutdownVars, busVars>>

\* The state outside the fields of NatsClient.
nonBusVars == <<socketVars, tableVars, historyVars, configVars, shutdownStage,
                dbState>>

vars == <<socketVars, nonSocketVars>>

----------------------------------------------------------------------------
(* Bounds *)

MaxBatch == 2      \* entries per bus message, socket specification
MaxAggBatch == 2   \* entries per bus message, aggregation specifications
MaxStateBatch == 2 \* entries per bus message, aggregate-state specification
MaxStatusBatch == 2 \* entries per bus message, status-label specification
MaxRef == 2        \* cap of a device's reference count
MaxDevices == 2    \* entries of the configured device list
MaxRows == 2       \* rows inserted into the aggregate history
MaxDay == 1        \* last day of the clock
DayLength == 3     \* seconds of a day of the clock
RetryCap == 5      \* cap of the retry counter of a history read

(* Constants of the program *)

MaxRetries == 3       \* retryCount < 3
RetryDelayMs == 1000  \* setTimeout(..., 1000)

----------------------------------------------------------------------------
(* Register values: a JSON value read from a register map *)

Undefined == [k |-> "undefined", v |-> 0]   \* key absent
NullStr == [k |-> "nullstr", v |-> 0]       \* the literal string "null"
JsNull == [k |-> "jsnull", v |-> 0]         \* JSON null
EmptyStr == [k |-> "empty", v |-> 0]        \* ""
NaNStr == [k |-> "nan", v |-> 0]            \* a non-numeric string
Num(n) == [k |-> "num", v |-> n]            \* a number or numeric string

isNullValue(value) == value.k \in {"jsnull", "undefined", "nullstr", "empty"}

parsePowerValue(value) ==
    IF isNullValue(value) THEN 0
    ELSE IF value.k = "num" THEN value.v ELSE 0

\* A register map; kind "object" is a dictionary, "string" a truthy
\* non-object (every property reads undefined), "undefined" a missing map.
Reg(w, a, b, c) == [kind |-> "object", W |-> w, WphA |-> a, WphB |-> b, WphC |-> c]
NoRegister == [kind |-> "undefined", W |-> Undefined, WphA |-> Undefined,
               WphB |-> Undefined, WphC |-> Undefined]
StringRegister == [kind |-> "string", W |-> Undefined, WphA |-> Undefined,
                   WphB |-> Undefined, WphC |-> Undefined]

calculateDevicePower(register) ==
    IF register.W # Undefined /\ ~isNullValue(register.W)
    THEN parsePowerValue(register.W)
    ELSE IF register.WphA # Undefined /\ register.WphB # Undefined
            /\ register.WphC # Undefined
         THEN LET phaseA == IF isNullValue(register.WphA) THEN 0
                            ELSE parsePowerValue(register.WphA)
                  phaseB == IF isNullValue(register.WphB) THEN 0
                            ELSE parsePowerValue(register.WphB)
                  phaseC == IF isNullValue(register.WphC) THEN 0
                            ELSE parsePowerValue(register.WphC)
              IN IF ~isNullValue(register.WphA) \/ ~isNullValue(register.WphB)
                    \/ ~isNullValue(register.WphC)
                 THEN phaseA + phaseB + phaseC
                 ELSE 0
         ELSE 0

\* Math.round(x * 100) / 100 on units of 0.001: Math.round rounds half up.
Round2(x) == ((x + 5) \div 10) * 10

----------------------------------------------------------------------------
(* Batch entries *)

\* A metadata sub-object; present = FALSE is a missing key.
Meta(name, type) == [present |-> TRUE, device_name |-> name, device_type |-> type]
NoMeta == [present |-> FALSE, device_name |-> "", device_type |-> ""]

\* An entry of payload.data; isNull = TRUE is a null array element.
Entry(mata, meta, register) ==
    [isNull |-> FALSE, deviceMataData |-> mata, deviceMetaData |-> meta,
     register |-> register]
NullEntry == [isNull |-> TRUE, deviceMataData |-> NoMeta, deviceMetaData |-> NoMeta,
              register |-> NoRegister]

\* entry.deviceMataData || entry.deviceMetaData || {}
entryMeta(entry) ==
    IF entry.deviceMataData.present THEN entry.deviceMataData
    ELSE IF entry.deviceMetaData.present THEN entry.deviceMetaData
    ELSE NoMeta

Categories == {"solar", "grid", "genset"}

categoryOf(deviceType) ==
    IF deviceType = "solar_inverter" THEN "solar"
    ELSE IF deviceType = "power_meter" THEN "grid"
    ELSE IF deviceType = "genset_controller" THEN "genset"
    ELSE "none"

----------------------------------------------------------------------------
(* Shared utility processPowerFlowData *)

ZeroTotals == [solar |-> 0, grid |-> 0, genset |-> 0]

\* The guard of the accumulation: "only process if we got valid power data".
hasValidPower(register, devicePower) ==
    devicePower > 0 \/ ~isNullValue(register.W) \/ ~isNullValue(register.WphA)
    \/ ~isNullValue(register.WphB) \/ ~isNullValue(register.WphC)

\* One iteration of the for loop over sensorData, on the accumulators
\* acc = [threw, power, receivedDevices].
utilStep(acc, entry) ==
    IF acc.threw THEN acc
    ELSE IF entry.isNull THEN [acc EXCEPT !.threw = TRUE]
    ELSE LET meta == entryMeta(entry)
             deviceType == meta.device_type
             register == entry.register
             devicePower == calculateDevicePower(register)
             cat == categoryOf(deviceType)
         IN IF deviceType = "" \/ register.kind = "undefined" THEN acc
            ELSE IF hasValidPower(register, devicePower) /\ cat # "none"
                 THEN [acc EXCEPT !.power[cat] = @ + devicePower,
                                  !.receivedDevices = @ \cup {cat}]
                 ELSE acc

RECURSIVE utilLoop(_, _, _)
utilLoop(acc, sensorData, i) ==
    IF i > Len(sensorData) THEN acc
    ELSE utilLoop(utilStep(acc, sensorData[i]), sensorData, i + 1)

\* The return statement of the utility on the final accumulators: every
\* metric rounded, load rounded from the unrounded sum.
utilResult(acc) ==
    [threw |-> acc.threw,
     solar |-> Round2(acc.power.solar),
     grid |-> Round2(acc.power.grid),
     genset |-> Round2(acc.power.genset),
     load |-> Round2(acc.power.solar + acc.power.grid + acc.power.genset),
     receivedDevices |-> acc.receivedDevices]

\* The result of the utility, or threw = TRUE when an entry is null
\* (a property read on null raises TypeError).
processPowerFlowDataUtil(sensorData) ==
    utilResult(utilLoop([threw |-> FALSE, power |-> ZeroTotals,
                         receivedDevices |-> {}], sensorData, 1))

----------------------------------------------------------------------------
(* Rooms and the emit log *)

Clients == {"s1", "s2"}

\* A room name is the sequence of its ':'-separated segments:
\* "sensor:Inv1" is <<"sensor", "Inv1">>, "power-flow" is <<"power-flow">>.
PowerFlowRoom == <<"power-flow">>
RoomNames == {<<"sensor", "Inv1">>, PowerFlowRoom}

sensorRoom(deviceName) == <<"sensor", deviceName>>

\* room.startsWith('sensor:')
isSensorRoom(room) == Len(room) >= 2 /\ room[1] = "sensor"

\* room.split(':')[1]
deviceNameOf(room) == room[2]

membersOf(rooms, room) == IF room \in DOMAIN rooms THEN rooms[room] ELSE {}

\* socket.rooms, read from the adapter
socketRooms(rooms, id) == {r \in DOMAIN rooms : id \in rooms[r]}

hasListeners(rooms, room) == membersOf(rooms, room) # {}

refCount(counts, deviceName) ==
    IF deviceName \in DOMAIN counts THEN counts[deviceName] ELSE 0

incDeviceRef(counts, deviceName) ==
    LET n == refCount(counts, deviceName) + 1
    IN [k \in DOMAIN counts \cup {deviceName} |->
            IF k = deviceName THEN n ELSE counts[k]]

\* A decrement that stores the floored count and never deletes the key.
decDeviceRefKeepKey(counts, deviceName) ==
    LET cur == refCount(counts, deviceName)
        n == IF cur - 1 > 0 THEN cur - 1 ELSE 0
    IN [k \in DOMAIN counts \cup {deviceName} |->
            IF k = deviceName THEN n ELSE counts[k]]

decDeviceRef(counts, deviceName) ==
    LET cur == refCount(counts, deviceName)
        n == IF cur - 1 > 0 THEN cur - 1 ELSE 0
    IN IF n = 0 THEN [k \in DOMAIN counts \ {deviceName} |-> counts[k]]
       ELSE [k \in DOMAIN counts \cup {deviceName} |->
                IF k = deviceName THEN n ELSE counts[k]]

\* The disconnect handler's loop: one decrement per sensor room in `rooms`.
RECURSIVE decAll(_, _)
decAll(counts, rooms) ==
    IF rooms = {} THEN counts
    ELSE LET room == CHOOSE r \in rooms : TRUE
         IN decAll(decDeviceRef(counts, deviceNameOf(room)), rooms \ {room})

NoSensor == [register |-> NoRegister, enriched |-> FALSE, ts |-> 0, deviceName |-> ""]

\* Labels that tell a value that is not zero from zero.
statusOfNonZero(solar, grid, genset, load) ==
    [solar |-> IF solar # 0 THEN "Active" ELSE "Inactive",
     grid |-> IF grid # 0 THEN "Active" ELSE "Inactive",
     genset |-> IF genset # 0 THEN "Running" ELSE "Stopped",
     load |-> IF load # 0 THEN "Active" ELSE "No Load"]

\* status: value > 0 ? 'Active' : 'Inactive' (genset: 'Running' : 'Stopped',
\* load: 'Active' : 'No Load')
statusOf(solar, grid, genset, load) ==
    [solar |-> IF solar > 0 THEN "Active" ELSE "Inactive",
     grid |-> IF grid > 0 THEN "Active" ELSE "Inactive",
     genset |-> IF genset > 0 THEN "Running" ELSE "Stopped",
     load |-> IF load > 0 THEN "Active" ELSE "No Load"]

NoSnapshot == [present |-> FALSE, solar |-> 0, grid |-> 0, genset |-> 0, load |-> 0,
               timestamp |-> 0, receivedDevices |-> {},
               status |-> statusOf(0, 0, 0, 0)]

\* One emit call: the event, the target room (<<"*">> is io.emit to every
\* connected socket), the sockets it was delivered to, the value returned,
\* and the payload (a sensor payload or an aggregate payload).
EmitRec(event, room, to, ret, sensor, flow) ==
    [event |-> event, room |-> room, to |-> to, ret |-> ret,
     sensor |-> sensor, flow |-> flow]

emitSensorToDevice(rooms, deviceName, shortNameDict) ==
    LET room == sensorRoom(deviceName)
    IN IF ~hasListeners(rooms, room)
       THEN EmitRec("sensor-data", room, {}, FALSE, shortNameDict, NoSnapshot)
       ELSE EmitRec("sensor-data", room, membersOf(rooms, room), TRUE,
                    shortNameDict, NoSnapshot)

emitPowerFlowData(rooms, powerFlowData) ==
    LET room == PowerFlowRoom
    IN IF ~hasListeners(rooms, room)
       THEN EmitRec("power-flow-data", room, {}, FALSE, NoSensor, powerFlowData)
       ELSE EmitRec("power-flow-data", room, membersOf(rooms, room), TRUE,
                    NoSensor, powerFlowData)

----------------------------------------------------------------------------
(* Raw per-device push *)

\* meta.device_name || meta.deviceName || meta.name (one spelling modelled)
entryDeviceName(entry) == entryMeta(entry).device_name

\* The guard of both push loops: skip an entry without a device name or
\* without an object register map.
isPushable(entry) ==
    entryDeviceName(entry) # "" /\ entry.register.kind = "object"

\* The for loop of handleUpstreamSensorBatch (enrich = FALSE) and of
\* handleContinuousSensorStream (enrich = TRUE) on acc = [threw, log].
\* Reading a property of a null entry raises TypeError, which leaves the loop.
pushStep(rooms, acc, entry, enrich, timestamp) ==
    IF acc.threw THEN acc
    ELSE IF entry.isNull THEN [acc EXCEPT !.threw = TRUE]
    ELSE IF ~isPushable(entry) THEN acc
    ELSE LET deviceName == entryDeviceName(entry)
             data == IF enrich
                     THEN [register |-> entry.register, enriched |-> TRUE,
                           ts |-> timestamp, deviceName |-> deviceName]
                     ELSE [register |-> entry.register, enriched |-> FALSE,
                           ts |-> 0, deviceName |-> ""]
         IN [acc EXCEPT !.log = Append(@, emitSensorToDevice(rooms, deviceName, data))]

RECURSIVE pushLoop(_, _, _, _, _, _)
pushLoop(rooms, acc, arr, i, enrich, timestamp) ==
    IF i > Len(arr) THEN acc
    ELSE pushLoop(rooms, pushStep(rooms, acc, arr[i], enrich, timestamp),
                  arr, i + 1, enrich, timestamp)

----------------------------------------------------------------------------
(* SocketManager.processPowerFlowData: carry-forward aggregation *)

\* A combination that adds the fresh total of a category to the previous
\* value instead of replacing it.
finalPowerAccumulate(result, previous) ==
    [solar |-> IF "solar" \in result.receivedDevices
               THEN result.solar + previous.solar ELSE previous.solar,
     grid |-> IF "grid" \in result.receivedDevices
              THEN result.grid + previous.grid ELSE previous.grid,
     genset |-> IF "genset" \in result.receivedDevices
                THEN result.genset + previous.genset ELSE previous.genset]

\* A combination that smooths the fresh total of a category with the
\* previous value.
finalPowerSmoothed(result, previous) ==
    [solar |-> IF "solar" \in result.receivedDevices
               THEN (result.solar + previous.solar) \div 2 ELSE previous.solar,
     grid |-> IF "grid" \in result.receivedDevices
              THEN (result.grid + previous.grid) \div 2 ELSE previous.grid,
     genset |-> IF "genset" \in result.receivedDevices
                THEN (result.genset + previous.genset) \div 2 ELSE previous.genset]

\* finalSolarPower, finalGridPower, finalGensetPower: the fresh total of a
\* category in receivedDevices, the previous value of any other.
finalPower(result, previous) ==
    [solar |-> IF "solar" \in result.receivedDevices
               THEN result.solar ELSE previous.solar,
     grid |-> IF "grid" \in result.receivedDevices
              THEN result.grid ELSE previous.grid,
     genset |-> IF "genset" \in result.receivedDevices
                THEN result.genset ELSE previous.genset]

\* finalLoadPower and the new previousPowerFlowData
withLoad(final) ==
    [solar |-> final.solar, grid |-> final.grid, genset |-> final.genset,
     load |-> final.solar + final.grid + final.genset]

\* powerFlowData
powerFlowDataOf(final, receivedDevices, timestamp) ==
    [present |-> TRUE, solar |-> final.solar, grid |-> final.grid,
     genset |-> final.genset, load |-> final.load, timestamp |-> timestamp,
     receivedDevices |-> receivedDevices,
     status |-> statusOf(final.solar, final.grid, final.genset, final.load)]

smOutcome(rooms, threw, final, snapshot) ==
    [threw |-> threw, previous |-> final, snapshot |-> snapshot,
     emit |-> emitPowerFlowData(rooms, snapshot)]

smFromResult(rooms, result, final, timestamp) ==
    smOutcome(rooms, result.threw, final,
              powerFlowDataOf(final, result.receivedDevices, timestamp))

smCarry(rooms, previous, result, timestamp) ==
    smFromResult(rooms, result, withLoad(finalPower(result, previous)), timestamp)

\* Returns threw (the utility raised, nothing else happened), the new
\* previousPowerFlowData, the snapshot and the emit call.
smProcessPowerFlowData(rooms, previous, sensorData, timestamp) ==
    smCarry(rooms, previous, processPowerFlowDataUtil(sensorData), timestamp)

\* PowerFlowSocketService.processPowerFlowData: the payload of
\* 'power-flow-update', built from the utility's result alone.
realTimeData(result, timestamp) ==
    [present |-> TRUE, solar |-> result.solar, grid |-> result.grid,
     genset |-> result.genset, load |-> result.load, timestamp |-> timestamp,
     receivedDevices |-> result.receivedDevices,
     status |-> statusOf(result.solar, result.grid, result.genset, result.load)]

----------------------------------------------------------------------------
(* Inputs *)

SeqsUpTo(S, n) == UNION {[1..k -> S] : k \in 0..n}

\* An inbound bus message: payload.data and payload.metadata.timestamp.
Payload(data, timestamp) == [data |-> data, timestamp |-> timestamp]

RegW(n) == Reg(Num(n), Undefined, Undefined, Undefined)
RegPhases == Reg(NullStr, Num(10000), Num(10000), Num(10000))
RegPartial == Reg(NullStr, Num(10000), Undefined, Undefined)
RegAllNull == Reg(NullStr, NullStr, NullStr, NullStr)

Inv1Entry == Entry(Meta("Inv1", "solar_inverter"), NoMeta, RegW(100000))

\* Messages of the room specification: an empty batch and a batch of Inv1.
RoomMessages == {Payload(<<>>, 1), Payload(<<Inv1Entry>>, 1)}

\* Entries of the ingestion specification: well-formed and malformed ones.
IngestEntries ==
    {NullEntry,
     Inv1Entry,
     Entry(NoMeta, Meta("MeterA", "power_meter"), RegAllNull),
     Entry(NoMeta, Meta("", "genset_controller"), RegW(0)),
     Entry(NoMeta, Meta("Inv1", "solar_inverter"), NoRegister),
     Entry(NoMeta, Meta("Inv1", "solar_inverter"), StringRegister)}

IngestMessages == {Payload(d, 1) : d \in SeqsUpTo(IngestEntries, MaxBatch)}

\* Entries of the aggregate-state specification: a device of two
\* categories and a null entry, on which the handler raises.
StateEntries ==
    {NullEntry,
     Inv1Entry,
     Entry(NoMeta, Meta("Gen1", "genset_controller"), RegW(75000))}

StateMessages == {Payload(d, 1) : d \in SeqsUpTo(StateEntries, MaxStateBatch)}

\* Entries of the status-label specification: a meter that reports export
\* (a negative value) and a running genset.
StatusEntries ==
    {Entry(NoMeta, Meta("MeterB", "power_meter"), RegW(0 - 50000)),
     Entry(NoMeta, Meta("Gen1", "genset_controller"), RegW(75000))}

StatusMessages == {Payload(d, 1) : d \in SeqsUpTo(StatusEntries, MaxStatusBatch)}

\* Entries of the aggregation specification of SocketManager.
AggEntries ==
    {Entry(NoMeta, Meta("Inv1", "solar_inverter"), RegW(100000)),
     Entry(NoMeta, Meta("Inv2", "solar_inverter"), RegPhases),
     Entry(NoMeta, Meta("Inv3", "solar_inverter"), RegPartial),
     Entry(NoMeta, Meta("MeterA", "power_meter"), RegW(4)),
     Entry(NoMeta, Meta("Gen1", "genset_controller"), RegW(75000))}

\* Entries of the PowerFlowSocketService specification.
PFEntries ==
    AggEntries \cup {Entry(NoMeta, Meta("Inv4", "solar_inverter"), RegW(4)),
                     Entry(NoMeta, Meta("MeterB", "power_meter"), RegW(-50000))}

PFMessages == {Payload(d, 1) : d \in SeqsUpTo(PFEntries, MaxAggBatch)}

AggMessages == {Payload(d, 1) : d \in SeqsUpTo(AggEntries, MaxAggBatch)}

----------------------------------------------------------------------------
(* Measures of a batch, taken from the design's wording (section 4.3) *)

isPresent(value) == value.k # "undefined"
isNullSentinel(value) == value.k \in {"nullstr", "jsnull", "empty"}
numberOf(value) == IF value.k = "num" THEN value.v ELSE 0

\* A device has data when W is present and not the null sentinel, or when
\* all three phase registers are present.
hasDataBySpec(register) ==
    \/ isPresent(register.W) /\ ~isNullSentinel(register.W)
    \/ isPresent(register.WphA) /\ isPresent(register.WphB)
       /\ isPresent(register.WphC)

\* Its power: W, else the sum of the non-null phases.
powerBySpec(register) ==
    IF isPresent(register.W) /\ ~isNullSentinel(register.W)
    THEN numberOf(register.W)
    ELSE IF isPresent(register.WphA) /\ isPresent(register.WphB)
            /\ isPresent(register.WphC)
         THEN numberOf(register.WphA) + numberOf(register.WphB)
              + numberOf(register.WphC)
         ELSE 0

\* The entries of a batch that are readings of a device of category cat.
isDeviceOf(entry, cat) ==
    /\ ~entry.isNull
    /\ entry.register.kind # "undefined"
    /\ categoryOf(entryMeta(entry).device_type) = cat

RECURSIVE sumOfCategory(_, _, _)
sumOfCategory(sensorData, cat, i) ==
    IF i > Len(sensorData) THEN 0
    ELSE (IF isDeviceOf(sensorData[i], cat)
          THEN calculateDevicePower(sensorData[i].register) ELSE 0)
         + sumOfCategory(sensorData, cat, i + 1)

\* The unrounded sum of the resolved powers of each category's devices.
batchSums(sensorData) == [cat \in Categories |-> sumOfCategory(sensorData, cat, 1)]

\* The categories in which some device of the batch has data.
batchContrib(sensorData) ==
    {cat \in Categories :
        \E i \in 1..Len(sensorData) :
            isDeviceOf(sensorData[i], cat) /\ hasDataBySpec(sensorData[i].register)}

DeviceKeys == {deviceNameOf(r) : r \in {x \in RoomNames : isSensorRoom(x)}}

----------------------------------------------------------------------------
(* DeviceTableService: blueprints, device tables and their registry *)

\* Device names are sequences of characters, so that the derivation of the
\* table name is computed character by character.
WordChars ==
    {"a", "b", "c", "d", "e", "f", "g", "h", "i", "j", "k", "l", "m", "n", "o",
     "p", "q", "r", "s", "t", "u", "v", "w", "x", "y", "z",
     "A", "B", "C", "D", "E", "F", "G", "H", "I", "J", "K", "L", "M", "N", "O",
     "P", "Q", "R", "S", "T", "U", "V", "W", "X", "Y", "Z",
     "0", "1", "2", "3", "4", "5", "6", "7", "8", "9", "_"}

\* deviceName.replace(/[^a-zA-Z0-9_]/g, '_')
sanitize(deviceName) ==
    [i \in 1..Len(deviceName) |->
        IF deviceName[i] \in WordChars THEN deviceName[i] ELSE "_"]

\* `device_${...}`
tableNameOf(deviceName) == <<"device_">> \o sanitize(deviceName)

NameInv == <<"I", "n", "v">>
NameDash == <<"G", "-", "1">>
NameUnder == <<"G", "_", "1">>
TableDevices == {NameInv, NameDash, NameUnder}

References == {"ref1", "ref2"}

\* A blueprint document: header.reference, header.device_type and the
\* short names of its registers.
Blueprint(reference, deviceType, registers) ==
    [present |-> TRUE, reference |-> reference, device_type |-> deviceType,
     registers |-> registers]

\* No document of the directory carries the reference.
NoBlueprint ==
    [present |-> FALSE, reference |-> "", device_type |-> "", registers |-> <<>>]

\* The documents a reference can have in the blueprint directory.
BlueprintsOf(reference) ==
    {NoBlueprint,
     Blueprint(reference, "solar_inverter", <<"W", "V">>),
     Blueprint(reference, "solar_inverter", <<"W">>),
     Blueprint(reference, "solar_inverter", <<>>)}

\* loadBlueprint(reference): the cached blueprint if there is one, else the
\* document of the directory whose header.reference matches, which is then
\* cached; found = FALSE is the throw of 'Blueprint file not found'.
loadBlueprint(cache, docs, reference) ==
    IF reference \in DOMAIN cache
    THEN [found |-> TRUE, blueprint |-> cache[reference], cache |-> cache]
    ELSE IF docs[reference].present
    THEN [found |-> TRUE, blueprint |-> docs[reference],
          cache |-> [r \in DOMAIN cache \cup {reference} |->
                        IF r = reference THEN docs[reference] ELSE cache[r]]]
    ELSE [found |-> FALSE, blueprint |-> NoBlueprint, cache |-> cache]

\* The columns of a device table: timestamp, one per register, sample_count.
columnsOf(blueprint) ==
    {"timestamp", "sample_count"}
        \cup {blueprint.registers[i] : i \in 1..Len(blueprint.registers)}

\* A statement that replaces the table of that name, whatever it holds.
createOrReplaceTable(tables, tableName, columns) ==
    [t \in DOMAIN tables \cup {tableName} |->
        IF t = tableName THEN columns ELSE tables[t]]

\* CREATE TABLE IF NOT EXISTS
createTableIfNotExists(tables, tableName, columns) ==
    IF tableName \in DOMAIN tables THEN tables
    ELSE [t \in DOMAIN tables \cup {tableName} |->
            IF t = tableName THEN columns ELSE tables[t]]

RegistryRow(deviceName, deviceType, reference, tableName) ==
    [device_name |-> deviceName, device_type |-> deviceType,
     reference |-> reference, table_name |-> tableName]

\* A plain INSERT: the row is added whatever the table holds.
insertRow(rows, row) == Append(rows, row)

\* INSERT OR REPLACE on the primary key device_name
insertOrReplace(rows, row) ==
    Append(SelectSeq(rows, LAMBDA r : r.device_name # row.device_name), row)

\* registerDeviceTable: the write of the registry row. An error of the
\* statement is logged and nothing else happens.
registerDeviceTable(rows, row, fault) ==
    IF fault = "register" THEN rows ELSE insertOrReplace(rows, row)

rowsOfDevice(rows, deviceName) ==
    SelectSeq(rows, LAMBDA r : r.device_name = deviceName)

\* getDeviceTableName: row.table_name of the device's row, or null (<<>>).
getDeviceTableName(rows, deviceName) ==
    IF Len(rowsOfDevice(rows, deviceName)) = 0 THEN <<>>
    ELSE rowsOfDevice(rows, deviceName)[1].table_name

\* tableExists: the device has a registry row and sqlite_master has the table.
tableExists(rows, tables, deviceName) ==
    /\ getDeviceTableName(rows, deviceName) # <<>>
    /\ getDeviceTableName(rows, deviceName) \in DOMAIN tables

\* The faults of the store during one call: none, the CREATE TABLE statement
\* fails, or the registry INSERT fails.
StoreFaults == {"none", "create", "register"}

TableOutcome(ok, error, tableName, cache, tables, rows) ==
    [ok |-> ok, error |-> error, tableName |-> tableName, cache |-> cache,
     tables |-> tables, rows |-> rows]

\* A creation that does not look at the register list of the blueprint.
createFromBlueprintUnchecked(look, tables, rows, deviceName, reference, fault) ==
    IF fault = "create"
    THEN TableOutcome(FALSE, "StoreError", <<>>, look.cache, tables, rows)
    ELSE TableOutcome(TRUE, "", tableNameOf(deviceName), look.cache,
                      createTableIfNotExists(tables, tableNameOf(deviceName),
                                             columnsOf(look.blueprint)),
                      registerDeviceTable(rows,
                          RegistryRow(deviceName, look.blueprint.device_type,
                                      reference, tableNameOf(deviceName)),
                          fault))

\* createDeviceTable once the blueprint is loaded.
createFromBlueprint(look, tables, rows, deviceName, reference, fault) ==
    IF Len(look.blueprint.registers) = 0
    THEN TableOutcome(FALSE, "SchemaIncomplete", <<>>, look.cache, tables, rows)
    ELSE IF fault = "create"
    THEN TableOutcome(FALSE, "StoreError", <<>>, look.cache, tables, rows)
    ELSE TableOutcome(TRUE, "", tableNameOf(deviceName), look.cache,
                      createTableIfNotExists(tables, tableNameOf(deviceName),
                                             columnsOf(look.blueprint)),
                      registerDeviceTable(rows,
                          RegistryRow(deviceName, look.blueprint.device_type,
                                      reference, tableNameOf(deviceName)),
                          fault))

createAfterLookup(look, tables, rows, deviceName, reference, fault) ==
    IF ~look.found
    THEN TableOutcome(FALSE, "BlueprintNotFound", <<>>, look.cache, tables, rows)
    ELSE createFromBlueprint(look, tables, rows, deviceName, reference, fault)

\* createDeviceTable(deviceName, reference): the error it rejects with or the
\* table name it resolves with, and the cache, tables and registry it leaves.
\* The two throws of the code are plain Errors; they are told apart here by
\* the names the design gives them.
createDeviceTable(cache, docs, tables, rows, deviceName, reference, fault) ==
    createAfterLookup(loadBlueprint(cache, docs, reference), tables, rows,
                      deviceName, reference, fault)

\* deleteDeviceTable(deviceName): DROP TABLE IF EXISTS of the registered
\* table and DELETE of the registry row; nothing without a registry row.
deleteDeviceTable(tables, rows, deviceName) ==
    IF getDeviceTableName(rows, deviceName) = <<>>
    THEN [tables |-> tables, rows |-> rows]
    ELSE [tables |-> [t \in DOMAIN tables \ {getDeviceTableName(rows, deviceName)}
                        |-> tables[t]],
          rows |-> SelectSeq(rows, LAMBDA r : r.device_name # deviceName)]

NoCall ==
    [op |-> "none", deviceName |-> <<>>, reference |-> "", fault |-> "none",
     ok |-> FALSE, error |-> "", tableName |-> <<>>, existed |-> FALSE,
     document |-> NoBlueprint, cached |-> FALSE, matched |-> NoBlueprint]

\* The call made last: its arguments and result, whether the device's table
\* existed before it, the document the directory held for the reference,
\* whether the cache held the reference when it was made, and the blueprint
\* the lookup returned.
CallRec(op, deviceName, reference, fault, out, existed, document, cached, matched) ==
    [op |-> op, deviceName |-> deviceName, reference |-> reference,
     fault |-> fault, ok |-> out.ok, error |-> out.error,
     tableName |-> out.tableName, existed |-> existed, document |-> document,
     cached |-> cached, matched |-> matched]

\* The instants at which the entries of a cache were set: those already
\* stamped keep their instant, the new ones get the current one.
stampNew(stamps, cache, instant) ==
    [r \in DOMAIN cache |-> IF r \in DOMAIN stamps THEN stamps[r] ELSE instant]

applyCreate(out, deviceName, reference, fault) ==
    /\ blueprintCache' = out.cache
    /\ cachedAt' = stampNew(cachedAt, out.cache, now)
    /\ physTables' = out.tables
    /\ deviceTables' = out.rows
    /\ lastCall' = CallRec("createDeviceTable", deviceName, reference, fault, out,
                           tableNameOf(deviceName) \in DOMAIN physTables,
                           blueprintDocs[reference],
                           reference \in DOMAIN blueprintCache,
                           loadBlueprint(blueprintCache, blueprintDocs,
                                         reference).blueprint)

\* DeviceTableService.createDeviceTable(deviceName, reference)
CreateDeviceTable(deviceName, reference, fault) ==
    /\ applyCreate(createDeviceTable(blueprintCache, blueprintDocs, physTables,
                                     deviceTables, deviceName, reference, fault),
                   deviceName, reference, fault)
    /\ UNCHANGED <<blueprintDocs, lastReconcile>>
    /\ UNCHANGED nonTableVars

\* DeviceTableService.deleteDeviceTable(deviceName)
DeleteDeviceTable(deviceName) ==
    /\ physTables' = deleteDeviceTable(physTables, deviceTables, deviceName).tables
    /\ deviceTables' = deleteDeviceTable(physTables, deviceTables, deviceName).rows
    /\ lastCall' = [NoCall EXCEPT !.op = "deleteDeviceTable",
                                  !.deviceName = deviceName, !.ok = TRUE]
    /\ UNCHANGED <<blueprintDocs, blueprintCache, lastReconcile, cachedAt>>
    /\ UNCHANGED nonTableVars

\* A blueprint document is written, edited or removed in the directory.
BlueprintChange(reference, document) ==
    /\ blueprintDocs[reference] # document
    /\ blueprintDocs' = [blueprintDocs EXCEPT ![reference] = document]
    /\ UNCHANGED <<blueprintCache, physTables, deviceTables, lastCall,
                   lastReconcile, cachedAt>>
    /\ UNCHANGED nonTableVars

----------------------------------------------------------------------------
(* AutoTableCreationService: reconciliation of the configured device list *)

\* An entry of the device list of devices.yml: device_name and reference
\* (<<>> and "" when missing), or an empty list item, which is null.
DeviceEntry(deviceName, reference) ==
    [isNull |-> FALSE, device_name |-> deviceName, reference |-> reference]

NullDevice == [isNull |-> TRUE, device_name |-> <<>>, reference |-> ""]

ConfigEntries ==
    {NullDevice,
     DeviceEntry(NameInv, "ref1"),
     DeviceEntry(NameDash, "ref2"),
     DeviceEntry(<<>>, "ref1"),
     DeviceEntry(NameInv, "")}

ConfigLists == SeqsUpTo(ConfigEntries, MaxDevices)

\* if (!deviceName || !reference) continue
isConfigured(device) ==
    ~device.isNull /\ device.device_name # <<>> /\ device.reference # ""

ReconcileAcc(threw, cache, tables, rows, created, alreadyExist, failed) ==
    [threw |-> threw, cache |-> cache, tables |-> tables, rows |-> rows,
     created |-> created, alreadyExist |-> alreadyExist, failed |-> failed]

\* The else branch: createDeviceTable, then results.created, or
\* results.failed from the catch when it rejects.
reconcileCreate(acc, device, out) ==
    ReconcileAcc(FALSE, out.cache, out.tables, out.rows,
                 IF out.ok THEN acc.created \cup {device.device_name}
                 ELSE acc.created,
                 acc.alreadyExist,
                 IF out.ok THEN acc.failed
                 ELSE acc.failed \cup {device.device_name})

\* One pass of the loop over the devices. Reading device.device_name of a
\* null entry raises TypeError inside the try, and again at
\* `device.device_name || 'unknown'` inside the catch, which ends the loop
\* and rejects the promise of checkAndCreateTables.
reconcileStep(acc, docs, device) ==
    IF acc.threw THEN acc
    ELSE IF device.isNull THEN [acc EXCEPT !.threw = TRUE]
    ELSE IF ~isConfigured(device) THEN acc
    ELSE IF tableExists(acc.rows, acc.tables, device.device_name)
    THEN [acc EXCEPT !.alreadyExist = @ \cup {device.device_name}]
    ELSE reconcileCreate(acc, device,
                         createDeviceTable(acc.cache, docs, acc.tables, acc.rows,
                                           device.device_name, device.reference,
                                           "none"))

RECURSIVE reconcileLoop(_, _, _, _)
reconcileLoop(acc, docs, devices, i) ==
    IF i > Len(devices) THEN acc
    ELSE reconcileLoop(reconcileStep(acc, docs, devices[i]), docs, devices, i + 1)

\* checkAndCreateTables(devices) on a store that runs every statement.
checkAndCreateTables(cache, docs, tables, rows, devices) ==
    reconcileLoop(ReconcileAcc(FALSE, cache, tables, rows, {}, {}, {}),
                  docs, devices, 1)

NoReconcile ==
    [ran |-> FALSE, devices |-> <<>>, threw |-> FALSE, created |-> {},
     alreadyExist |-> {}, failed |-> {}]

applyReconcile(out, devices) ==
    /\ blueprintCache' = out.cache
    /\ cachedAt' = stampNew(cachedAt, out.cache, now)
    /\ physTables' = out.tables
    /\ deviceTables' = out.rows
    /\ lastReconcile' = [ran |-> TRUE, devices |-> devices, threw |-> out.threw,
                         created |-> out.created,
                         alreadyExist |-> out.alreadyExist, failed |-> out.failed]

\* AutoTableCreationService.checkAndCreateTables(devices)
CheckAndCreateTables(devices) ==
    /\ applyReconcile(checkAndCreateTables(blueprintCache, blueprintDocs,
                                           physTables, deviceTables, devices),
                      devices)
    /\ UNCHANGED <<blueprintDocs, lastCall>>
    /\ UNCHANGED nonTableVars

----------------------------------------------------------------------------
(* DatabaseService and SQLiteService: the aggregate history *)

\* An instant: a day and a second of that day. A day has DayLength seconds.
Time(day, sec) == [day |-> day, sec |-> sec]

toSeconds(t) == t.day * DayLength + t.sec

fromSeconds(n) == Time(n \div DayLength, n % DayLength)

\* The separators of the two datetime texts, as character codes.
SpaceChar == 32
TChar == 84
DotChar == 46
ZChar == 90

\* CURRENT_TIMESTAMP and datetime(...): 'YYYY-MM-DD HH:MM:SS'. The date and
\* the time are fixed-width fields, kept here as numbers.
sqlDatetime(t) == <<t.day, SpaceChar, t.sec>>

\* Date.prototype.toISOString: 'YYYY-MM-DDTHH:MM:SS.sssZ'
toISOString(t) == <<t.day, TChar, t.sec, DotChar, 0, ZChar>>

\* Comparison of two texts, field by field (BINARY collation): a < b.
RECURSIVE textLess(_, _, _)
textLess(a, b, i) ==
    IF i > Len(b) THEN FALSE
    ELSE IF i > Len(a) THEN TRUE
    ELSE IF a[i] # b[i] THEN a[i] < b[i]
    ELSE textLess(a, b, i + 1)

\* A row of power_flow_analysis: id, timestamp (of the batch) and
\* created_at (DEFAULT CURRENT_TIMESTAMP).
HistoryRow(id, timestamp, createdAt) ==
    [id |-> id, timestamp |-> timestamp, created_at |-> sqlDatetime(createdAt),
     createdAt |-> createdAt]

BatchTimestamps == {1000, 2000}

\* cutoffDate = new Date(); cutoffDate.setDate(getDate() - retentionDays)
cutoffDate(nowT, retentionDays) == Time(nowT.day - retentionDays, nowT.sec)

\* DELETE FROM power_flow_analysis WHERE created_at < ?
isOlderThan(row, cutoffText) == textLess(row.created_at, cutoffText, 1)

CleanupResult(success, deletedRows, rows) ==
    [success |-> success, deletedRows |-> deletedRows, rows |-> rows]

\* cleanupOldData(retentionDays): the result object and the rows left.
\* A failed statement gives {success: false} and leaves the rows.
cleanupOldData(rows, nowT, retentionDays, fails) ==
    IF fails THEN CleanupResult(FALSE, 0, rows)
    ELSE CleanupResult(
            TRUE,
            Len(SelectSeq(rows, LAMBDA r :
                    isOlderThan(r, toISOString(cutoffDate(nowT, retentionDays))))),
            SelectSeq(rows, LAMBDA r :
                    ~isOlderThan(r, toISOString(cutoffDate(nowT, retentionDays)))))

\* ORDER BY created_at ASC; rows of one created_at come in rowid order.
createdBefore(a, b) ==
    \/ textLess(a.created_at, b.created_at, 1)
    \/ a.created_at = b.created_at /\ a.id < b.id

RECURSIVE insertByCreated(_, _)
insertByCreated(sorted, row) ==
    IF sorted = <<>> THEN <<row>>
    ELSE IF createdBefore(row, Head(sorted)) THEN <<row>> \o sorted
    ELSE <<Head(sorted)>> \o insertByCreated(Tail(sorted), row)

RECURSIVE orderByCreated(_)
orderByCreated(rows) ==
    IF rows = <<>> THEN <<>>
    ELSE insertByCreated(orderByCreated(Tail(rows)), Head(rows))

\* WHERE created_at >= datetime('now', '-N minutes') ORDER BY created_at ASC
historyQuery(rows, nowT, window) ==
    orderByCreated(SelectSeq(rows, LAMBDA r :
        ~textLess(r.created_at,
                  sqlDatetime(fromSeconds(toSeconds(nowT) - window)), 1)))

\* The row formatting: time is the ISO text of the batch timestamp, which
\* orders as the timestamp does.
formattedData(rows) ==
    [i \in 1..Len(rows) |-> [batchId |-> rows[i].id, time |-> rows[i].timestamp]]

\* The outcomes of one db.all: SQLITE_BUSY, another error, or the rows.
StoreOutcomes == {"busy", "error", "rows"}

NoResult ==
    [settled |-> "pending", success |-> FALSE, error |-> "", data |-> <<>>,
     count |-> 0]

SoftFailure(error) ==
    [settled |-> "resolved", success |-> FALSE, error |-> error, data |-> <<>>,
     count |-> 0]

Success(data) ==
    [settled |-> "resolved", success |-> TRUE, error |-> "", data |-> data,
     count |-> Len(data)]

IdleCall ==
    [phase |-> "idle", window |-> 0, retryCount |-> 0, outcomes |-> <<>>,
     delays |-> <<>>, result |-> NoResult]

\* A retry decision that has no bound.
shouldRetryAlways(outcome, retryCount) == outcome = "busy"

\* err.code === 'SQLITE_BUSY' && retryCount < 3
shouldRetry(outcome, retryCount) == outcome = "busy" /\ retryCount < MaxRetries

\* The callback of db.all on the call in progress.
onQueryResult(call, outcome, rows, nowT) ==
    IF outcome # "rows"
    THEN IF shouldRetry(outcome, call.retryCount)
         THEN [call EXCEPT !.phase = "waiting",
                           !.outcomes = Append(@, outcome),
                           !.delays = Append(@, RetryDelayMs)]
         ELSE [call EXCEPT !.phase = "resolved",
                           !.outcomes = Append(@, outcome),
                           !.result = SoftFailure(outcome)]
    ELSE [call EXCEPT !.phase = "resolved",
                      !.outcomes = Append(@, outcome),
                      !.result = Success(formattedData(
                                     historyQuery(rows, nowT, call.window)))]

HistoryWindows == {1, DayLength}

\* SQLiteService.getPowerFlowHistory(hours): the promise is created and the
\* first attempt is issued. A new call starts once the previous one settled.
GetPowerFlowHistory(window) ==
    /\ historyCall.phase \in {"idle", "resolved"}
    /\ historyCall' = [IdleCall EXCEPT !.phase = "querying", !.window = window]
    /\ UNCHANGED <<now, powerFlowRows, nextRowId, lastCleanup>>
    /\ UNCHANGED nonHistoryVars

\* The store answers the attempt in progress.
QueryAnswered(outcome) ==
    /\ historyCall.phase = "querying"
    /\ historyCall' = onQueryResult(historyCall, outcome, powerFlowRows, now)
    /\ UNCHANGED <<now, powerFlowRows, nextRowId, lastCleanup>>
    /\ UNCHANGED nonHistoryVars

\* setTimeout(() => attemptQuery(retryCount + 1), 1000) fires.
RetryTimerFires ==
    /\ historyCall.phase = "waiting"
    /\ historyCall.retryCount < RetryCap
    /\ historyCall' = [historyCall EXCEPT !.phase = "querying",
                                          !.retryCount = @ + 1]
    /\ UNCHANGED <<now, powerFlowRows, nextRowId, lastCleanup>>
    /\ UNCHANGED nonHistoryVars

\* The writer of the history inserts the snapshot of a batch: created_at
\* takes its default, the current time.
InsertHistoryRow(timestamp) ==
    /\ nextRowId <= MaxRows
    /\ powerFlowRows' = Append(powerFlowRows, HistoryRow(nextRowId, timestamp, now))
    /\ nextRowId' = nextRowId + 1
    /\ UNCHANGED <<now, historyCall, lastCleanup>>
    /\ UNCHANGED nonHistoryVars

\* Time passes: one second.
Tick ==
    /\ toSeconds(now) < MaxDay * DayLength + DayLength - 1
    /\ now' = fromSeconds(toSeconds(now) + 1)
    /\ UNCHANGED <<powerFlowRows, nextRowId, historyCall, lastCleanup>>
    /\ UNCHANGED nonHistoryVars

NoCleanup ==
    [ran |-> FALSE, success |-> FALSE, cutoff |-> Time(0, 0), before |-> <<>>,
     after |-> <<>>, deletedRows |-> 0]

RetentionChoices == {0, 1}

applyCleanup(out, retentionDays) ==
    /\ powerFlowRows' = out.rows
    /\ lastCleanup' = [ran |-> TRUE, success |-> out.success,
                       cutoff |-> cutoffDate(now, retentionDays),
                       before |-> powerFlowRows,
                       after |-> out.rows,
                       deletedRows |-> out.deletedRows]

\* DatabaseService.cleanupOldData(retentionDays)
CleanupOldData(retentionDays, fails) ==
    /\ applyCleanup(cleanupOldData(powerFlowRows, now, retentionDays, fails),
                    retentionDays)
    /\ UNCHANGED <<now, nextRowId, historyCall>>
    /\ UNCHANGED nonHistoryVars

----------------------------------------------------------------------------
(* NatsClient: records of the connection and of the subscriptions *)

\* The callers waiting for one pending connection promise, at most.
MaxCallers == 2

\* The subscription objects created in one run, at most.
MaxSubscribes == 3

\* The subjects subscribed by the server and by PowerFlowSocketService.
Subjects == {"sensor.data"}

\* Server.handleSensorData and the callback PowerFlowSocketService passes.
Callbacks == {"handleSensorData", "processPowerFlowData"}

\* What a connect() call resolved with, and the fields of the client at that
\* moment.
ConnectRec(result, connected, connection) ==
    [result |-> result, connected |-> connected, nc |-> connection]

NoConnect == ConnectRec("none", FALSE, "null")

\* The object nc.subscribe(subject) returns, with the callback its message
\* loop calls; held says that the entry of the subscriptions map for its
\* subject is this object.
Subscription(id, subject, callback, held) ==
    [id |-> id, subject |-> subject, callback |-> callback, held |-> held]

----------------------------------------------------------------------------
(* Initial state: after construction and init(io), no socket connected *)

Init ==
    /\ connectedClients = {}
    /\ clientCount = 0
    /\ adapterRooms = [r \in RoomNames |-> {}]
    /\ sensorRefCounts = <<>>
    /\ previousPowerFlowData = [solar |-> 0, grid |-> 0, genset |-> 0, load |-> 0]
    /\ emitted = <<>>
    /\ pfLast = NoSnapshot
    /\ updLast = NoSnapshot
    /\ everJoined = [c \in Clients |-> {}]
    /\ expectedRef = [d \in DeviceKeys |-> 0]
    /\ lastSums = ZeroTotals
    /\ lastContrib = {}
    /\ lastOp = [op |-> "init", id |-> "", room |-> <<>>]
    /\ blueprintDocs = [r \in References |-> Blueprint(r, "solar_inverter", <<"W", "V">>)]
    /\ blueprintCache = <<>>
    /\ physTables = <<>>
    /\ deviceTables = <<>>
    /\ lastCall = NoCall
    /\ lastReconcile = NoReconcile
    /\ cachedAt = <<>>
    /\ now = Time(0, 0)
    /\ powerFlowRows = <<>>
    /\ nextRowId = 1
    /\ historyCall = IdleCall
    /\ lastCleanup = NoCleanup
    /\ shutdownStage = "running"
    /\ dbState = "open"
    /\ natsConnected = FALSE
    /\ subscriptions = {}
    /\ devicesList = <<>>
    /\ nc = "null"
    /\ connectionPromise = "null"
    /\ attemptsInFlight = 0
    /\ waiting = 0
    /\ draining = FALSE
    /\ subscribers = {}
    /\ nextSubId = 1
    /\ lastConnect = NoConnect
    /\ stopped = {}
    /\ invoked = {}

Op(op, id, room) == [op |-> op, id |-> id, room |-> room]

----------------------------------------------------------------------------
(* Socket events *)

\* io.on('connection')
Connection(id) ==
    /\ id \notin connectedClients
    /\ clientCount' = clientCount + 1
    /\ connectedClients' = connectedClients \cup {id}
    /\ emitted' = <<EmitRec("welcome", <<id>>, {id}, TRUE, NoSensor, NoSnapshot)>>
    /\ everJoined' = [everJoined EXCEPT ![id] = {}]
    /\ lastOp' = Op("connection", id, <<>>)
    /\ UNCHANGED <<adapterRooms, sensorRefCounts, previousPowerFlowData, pfLast,
                   updLast, expectedRef, lastSums, lastContrib>>
    /\ UNCHANGED nonSocketVars

\* socket.on('join-room')
JoinRoom(id, room) ==
    /\ id \in connectedClients
    /\ isSensorRoom(room) => refCount(sensorRefCounts, deviceNameOf(room)) < MaxRef
    /\ adapterRooms' = [adapterRooms EXCEPT ![room] = @ \cup {id}]
    /\ sensorRefCounts' = IF isSensorRoom(room)
                          THEN incDeviceRef(sensorRefCounts, deviceNameOf(room))
                          ELSE sensorRefCounts
    /\ expectedRef' = IF isSensorRoom(room)
                      THEN [expectedRef EXCEPT ![deviceNameOf(room)] = @ + 1]
                      ELSE expectedRef
    /\ everJoined' = [everJoined EXCEPT ![id] = @ \cup {room}]
    /\ emitted' = <<>>
    /\ lastOp' = Op("join-room", id, room)
    /\ UNCHANGED <<connectedClients, clientCount, previousPowerFlowData, pfLast,
                   updLast, lastSums, lastContrib>>
    /\ UNCHANGED nonSocketVars

\* socket.on('leave-room')
LeaveRoom(id, room) ==
    /\ id \in connectedClients
    /\ adapterRooms' = [adapterRooms EXCEPT ![room] = @ \ {id}]
    /\ sensorRefCounts' = IF isSensorRoom(room)
                          THEN decDeviceRef(sensorRefCounts, deviceNameOf(room))
                          ELSE sensorRefCounts
    /\ expectedRef' = IF isSensorRoom(room)
                      THEN [expectedRef EXCEPT ![deviceNameOf(room)] =
                                IF @ - 1 > 0 THEN @ - 1 ELSE 0]
                      ELSE expectedRef
    /\ emitted' = <<>>
    /\ lastOp' = Op("leave-room", id, room)
    /\ UNCHANGED <<connectedClients, clientCount, previousPowerFlowData, pfLast,
                   updLast, everJoined, lastSums, lastContrib>>
    /\ UNCHANGED nonSocketVars

\* The rooms the 'disconnect' handler reads from socket.rooms. Socket.IO
\* removes the socket from every room before it emits 'disconnect', so the
\* handler reads the adapter as it is after that removal.
roomsAtDisconnect(rooms, id) ==
    socketRooms([r \in DOMAIN rooms |-> rooms[r] \ {id}], id)

\* socket.on('disconnect')
Disconnect(id) ==
    /\ id \in connectedClients
    /\ clientCount' = clientCount - 1
    /\ connectedClients' = connectedClients \ {id}
    /\ adapterRooms' = [r \in DOMAIN adapterRooms |-> adapterRooms[r] \ {id}]
    /\ sensorRefCounts' =
           decAll(sensorRefCounts,
                  {r \in roomsAtDisconnect(adapterRooms, id) : isSensorRoom(r)})
    /\ everJoined' = [everJoined EXCEPT ![id] = {}]
    /\ emitted' = <<>>
    /\ lastOp' = Op("disconnect", id, <<>>)
    /\ UNCHANGED <<previousPowerFlowData, pfLast, updLast, expectedRef, lastSums,
                   lastContrib>>
    /\ UNCHANGED nonSocketVars

----------------------------------------------------------------------------
(* Bus message handlers *)

\* SocketManager.handleUpstreamSensorBatch(payload)
HandleUpstreamSensorBatch(payload) ==
    LET push == pushLoop(adapterRooms, [threw |-> FALSE, log |-> <<>>],
                         payload.data, 1, FALSE, payload.timestamp)
    IN /\ emitted' = push.log
       /\ lastOp' = Op("upstream-batch", "", <<>>)
       /\ UNCHANGED <<connectedClients, clientCount, adapterRooms, sensorRefCounts,
                      previousPowerFlowData, pfLast, updLast, everJoined,
                      expectedRef, lastSums, lastContrib>>
       /\ UNCHANGED nonSocketVars

\* The end of handleContinuousSensorStream: processPowerFlowData on the
\* same batch, after the push loop.
streamWithFlow(log, previous, flow) ==
    IF flow.threw
    THEN [log |-> log, previous |-> previous, snapshot |-> NoSnapshot]
    ELSE [log |-> Append(log, flow.emit), previous |-> flow.previous,
          snapshot |-> flow.snapshot]

\* An end of the handler that has begun to reset the state when the push
\* loop raises.
streamAfterPushHalf(rooms, previous, payload, push) ==
    IF push.threw
    THEN [log |-> push.log, previous |-> [previous EXCEPT !.solar = 0],
          snapshot |-> NoSnapshot]
    ELSE streamWithFlow(push.log, previous,
                        smProcessPowerFlowData(rooms, previous, payload.data,
                                               payload.timestamp))

streamAfterPush(rooms, previous, payload, push) ==
    IF push.threw
    THEN [log |-> push.log, previous |-> previous, snapshot |-> NoSnapshot]
    ELSE streamWithFlow(push.log, previous,
                        smProcessPowerFlowData(rooms, previous, payload.data,
                                               payload.timestamp))

\* The body of SocketManager.handleContinuousSensorStream: the raw push of
\* every entry, then processPowerFlowData on the same batch unless the push
\* loop raised. Returns the emit calls, the new previousPowerFlowData and
\* the snapshot built (present = FALSE when none was).
continuousStream(rooms, previous, payload) ==
    streamAfterPush(rooms, previous, payload,
                    pushLoop(rooms, [threw |-> FALSE, log |-> <<>>],
                             payload.data, 1, TRUE, payload.timestamp))

applyStream(out, sensorData) ==
    /\ emitted' = out.log
    /\ previousPowerFlowData' = out.previous
    /\ pfLast' = IF out.snapshot.present THEN out.snapshot ELSE pfLast
    /\ lastSums' = IF out.snapshot.present THEN batchSums(sensorData) ELSE lastSums
    /\ lastContrib' = IF out.snapshot.present THEN batchContrib(sensorData)
                      ELSE lastContrib

\* SocketManager.handleContinuousSensorStream(payload)
HandleContinuousSensorStream(payload) ==
    /\ applyStream(continuousStream(adapterRooms, previousPowerFlowData, payload),
                   payload.data)
    /\ lastOp' = Op("continuous-stream", "", <<>>)
    /\ UNCHANGED <<connectedClients, clientCount, adapterRooms, sensorRefCounts,
                   updLast, everJoined, expectedRef>>
    /\ UNCHANGED nonSocketVars

\* PowerFlowSocketService.processPowerFlowData(sensorData): io.emit of
\* 'power-flow-update' to every connected socket.
PowerFlowUpdate(sensorData) ==
    LET result == processPowerFlowDataUtil(sensorData.data)
        data == realTimeData(result, sensorData.timestamp)
    IN /\ emitted' = IF result.threw THEN <<>>
                     ELSE <<EmitRec("power-flow-update", <<"*">>, connectedClients,
                                    TRUE, NoSensor, data)>>
       /\ updLast' = IF result.threw THEN updLast ELSE data
       /\ lastOp' = Op("power-flow-update", "", <<>>)
       /\ UNCHANGED <<connectedClients, clientCount, adapterRooms, sensorRefCounts,
                      previousPowerFlowData, pfLast, everJoined, expectedRef,
                      lastSums, lastContrib>>
       /\ UNCHANGED nonSocketVars

----------------------------------------------------------------------------
(* DeviceController: the device list and the device tables *)

\* The longest device list explored.
MaxListed == 3

\* data.devices_list.find / findIndex by device_name: the first index, or 0.
findIndex(list, deviceName) ==
    IF \E i \in 1..Len(list) : list[i].device_name = deviceName
    THEN CHOOSE i \in 1..Len(list) :
            /\ list[i].device_name = deviceName
            /\ \A j \in 1..(i - 1) : list[j].device_name # deviceName
    ELSE 0

\* addDevice(deviceData): refused when the name exists; the table is created
\* first, and the device is pushed to the list only when that succeeded.
AddDevice(deviceName, reference, fault) ==
    /\ Len(devicesList) < MaxListed
    /\ findIndex(devicesList, deviceName) = 0
    /\ applyCreate(createDeviceTable(blueprintCache, blueprintDocs, physTables,
                                     deviceTables, deviceName, reference, fault),
                   deviceName, reference, fault)
    /\ devicesList' =
          IF createDeviceTable(blueprintCache, blueprintDocs, physTables,
                               deviceTables, deviceName, reference, fault).ok
          THEN Append(devicesList, DeviceEntry(deviceName, reference))
          ELSE devicesList
    /\ UNCHANGED <<blueprintDocs, lastReconcile>>
    /\ UNCHANGED nonDeviceVars

\* The tables after the rename of a device: deleteDeviceTable of the old
\* name, then createDeviceTable of the new one, whose failure is only logged.
renameTable(cache, docs, tables, rows, oldName, newName, reference, fault) ==
    createDeviceTable(cache, docs,
                      deleteDeviceTable(tables, rows, oldName).tables,
                      deleteDeviceTable(tables, rows, oldName).rows,
                      newName, reference, fault)

\* updateDevice(deviceName, updateData): the entry is replaced and success
\* returned; the tables are touched only when the name changes.
UpdateDevice(deviceName, newName, reference, fault) ==
    /\ findIndex(devicesList, deviceName) # 0
    /\ devicesList' = [devicesList EXCEPT ![findIndex(devicesList, deviceName)] =
                                             DeviceEntry(newName, reference)]
    /\ IF newName # deviceName
       THEN applyCreate(renameTable(blueprintCache, blueprintDocs, physTables,
                                    deviceTables, deviceName, newName, reference,
                                    fault),
                        newName, reference, fault)
       ELSE UNCHANGED <<blueprintCache, physTables, deviceTables, lastCall,
                        cachedAt>>
    /\ UNCHANGED <<blueprintDocs, lastReconcile>>
    /\ UNCHANGED nonDeviceVars

\* deleteDevice(deviceName): the table is deleted and every entry of that
\* name is filtered out of the list.
DeleteDevice(deviceName) ==
    /\ findIndex(devicesList, deviceName) # 0
    /\ physTables' = deleteDeviceTable(physTables, deviceTables, deviceName).tables
    /\ deviceTables' = deleteDeviceTable(physTables, deviceTables, deviceName).rows
    /\ lastCall' = [NoCall EXCEPT !.op = "deleteDeviceTable",
                                  !.deviceName = deviceName, !.ok = TRUE]
    /\ devicesList' = SelectSeq(devicesList, LAMBDA d : d.device_name # deviceName)
    /\ UNCHANGED <<blueprintDocs, blueprintCache, lastReconcile, cachedAt>>
    /\ UNCHANGED nonDeviceVars

----------------------------------------------------------------------------
(* The bus client and graceful shutdown *)

\* config.NATS_TOPIC, the subject of the sensor batches
NatsTopic == "sensor.data"

\* NatsClient.connect()
NatsConnect ==
    /\ shutdownStage = "running"
    /\ ~natsConnected
    /\ natsConnected' = TRUE
    /\ UNCHANGED <<shutdownStage, dbState, subscriptions>>
    /\ UNCHANGED nonShutdownVars

\* NatsClient.subscribe(subject, callback): refused when not connected.
NatsSubscribe(subject) ==
    /\ shutdownStage = "running"
    /\ natsConnected
    /\ subscriptions' = subscriptions \cup {subject}
    /\ UNCHANGED <<shutdownStage, dbState, natsConnected>>
    /\ UNCHANGED nonShutdownVars

\* The message loop of a subscription hands a batch to Server.handleSensorData,
\* which runs SocketManager.handleUpstreamSensorBatch. The loop runs whenever
\* the process waits for I/O, as long as the subscription exists.
DeliverBatch(payload) ==
    /\ shutdownStage # "exited"
    /\ NatsTopic \in subscriptions
    /\ HandleUpstreamSensorBatch(payload)

\* SIGINT or SIGTERM: gracefulShutdown calls server.stop() and waits.
ShutdownSignal ==
    /\ shutdownStage = "running"
    /\ shutdownStage' = "stopping-server"
    /\ UNCHANGED <<dbState, natsConnected, subscriptions>>
    /\ UNCHANGED nonShutdownVars

\* The callback of server.close(): gracefulShutdown goes on and calls
\* databaseService.close(), which issues db.close() and waits.
ServerStopped ==
    /\ shutdownStage = "stopping-server"
    /\ shutdownStage' = "closing-db"
    /\ dbState' = "closing"
    /\ UNCHANGED <<natsConnected, subscriptions>>
    /\ UNCHANGED nonShutdownVars

\* The callback of db.close(): isConnected = false; gracefulShutdown goes on
\* and calls NatsClient.disconnect(), which returns at once when not
\* connected (then process.exit), else unsubscribes every subscription,
\* clears the map and waits for nc.drain().
DatabaseClosed ==
    /\ shutdownStage = "closing-db"
    /\ dbState' = "closed"
    /\ shutdownStage' = IF natsConnected THEN "draining" ELSE "exited"
    /\ subscriptions' = IF natsConnected THEN {} ELSE subscriptions
    /\ UNCHANGED natsConnected
    /\ UNCHANGED nonShutdownVars

\* nc.drain() and nc.close() are done: connected = false, process.exit(0).
NatsDisconnected ==
    /\ shutdownStage = "draining"
    /\ natsConnected' = FALSE
    /\ shutdownStage' = "exited"
    /\ UNCHANGED <<dbState, subscriptions>>
    /\ UNCHANGED nonShutdownVars

----------------------------------------------------------------------------
(* NatsClient: connect, disconnect, subscribe, unsubscribe *)

\* connect() when the client is connected: true at once.
connectWhileConnected ==
    /\ lastConnect' = ConnectRec("true", natsConnected, nc)
    /\ UNCHANGED <<nc, natsConnected, connectionPromise, attemptsInFlight, waiting>>

\* connect() when connectionPromise is set: the caller gets that promise, and
\* waits with the others when it is pending, else resolves with its value.
connectWithPromise ==
    IF connectionPromise = "pending"
    THEN /\ waiting < MaxCallers
         /\ waiting' = waiting + 1
         /\ UNCHANGED <<nc, natsConnected, connectionPromise, attemptsInFlight,
                        lastConnect>>
    ELSE /\ lastConnect' = ConnectRec(connectionPromise, natsConnected, nc)
         /\ UNCHANGED <<nc, natsConnected, connectionPromise, attemptsInFlight,
                        waiting>>

\* connect() with no promise: _connect() is called and its promise kept.
\* With a URL that new URL() rejects, _connect throws before its first await:
\* its catch runs inside the call and resets the fields, then connect() stores
\* the promise, already resolved with false.
connectNewAttempt(urlValid) ==
    IF urlValid
    THEN /\ connectionPromise' = "pending"
         /\ attemptsInFlight' = attemptsInFlight + 1
         /\ waiting' = 1
         /\ UNCHANGED <<nc, natsConnected, lastConnect>>
    ELSE /\ connectionPromise' = "false"
         /\ natsConnected' = FALSE
         /\ nc' = "null"
         /\ lastConnect' = ConnectRec("false", FALSE, "null")
         /\ UNCHANGED <<attemptsInFlight, waiting>>

\* NatsClient.connect()
ClientConnect(urlValid) ==
    /\ IF natsConnected /\ nc # "null" THEN connectWhileConnected
       ELSE IF connectionPromise # "null" THEN connectWithPromise
       ELSE connectNewAttempt(urlValid)
    /\ UNCHANGED <<draining, subscribers, nextSubId, stopped, invoked,
                   subscriptions>>
    /\ UNCHANGED nonBusVars

\* _connect after `await connect(...)` returned a connection: every caller
\* waiting for the promise resolves with true.
ConnectSucceeds ==
    /\ attemptsInFlight > 0
    /\ nc' = "connection"
    /\ natsConnected' = TRUE
    /\ connectionPromise' = IF connectionPromise = "pending" THEN "true"
                            ELSE connectionPromise
    /\ attemptsInFlight' = attemptsInFlight - 1
    /\ waiting' = 0
    /\ lastConnect' = ConnectRec("true", TRUE, "connection")
    /\ UNCHANGED <<draining, subscribers, nextSubId, stopped, invoked,
                   subscriptions>>
    /\ UNCHANGED nonBusVars

\* _connect after `await connect(...)` threw: the catch resets the fields
\* and the promise, every caller resolves with false.
ConnectFails ==
    /\ attemptsInFlight > 0
    /\ nc' = "null"
    /\ natsConnected' = FALSE
    /\ connectionPromise' = "null"
    /\ attemptsInFlight' = attemptsInFlight - 1
    /\ waiting' = 0
    /\ lastConnect' = ConnectRec("false", FALSE, "null")
    /\ UNCHANGED <<draining, subscribers, nextSubId, stopped, invoked,
                   subscriptions>>
    /\ UNCHANGED nonBusVars

\* The handlers of nc.closed(): the connection ended on its own (the server
\* went away and the reconnect attempts ran out). The message loops end with
\* it; the map of subscriptions and the promise are left as they are.
ConnectionClosed ==
    /\ nc # "null"
    /\ ~draining
    /\ natsConnected' = FALSE
    /\ nc' = "null"
    /\ subscribers' = {}
    /\ UNCHANGED <<connectionPromise, attemptsInFlight, waiting, draining,
                   nextSubId, lastConnect, stopped, invoked, subscriptions>>
    /\ UNCHANGED nonBusVars

\* NatsClient.disconnect() up to `await this.nc.drain()`: the subscriptions
\* of the map are unsubscribed and the map is cleared.
ClientDisconnect ==
    /\ nc # "null"
    /\ natsConnected
    /\ ~draining
    /\ subscribers' = {s \in subscribers : ~s.held}
    /\ subscriptions' = {}
    /\ draining' = TRUE
    /\ UNCHANGED <<nc, natsConnected, connectionPromise, attemptsInFlight, waiting,
                   nextSubId, lastConnect, stopped, invoked>>
    /\ UNCHANGED nonBusVars

\* NatsClient.disconnect() after drain() and close(): the fields and the
\* promise are reset; the connection is gone, and every message loop with it.
DrainDone ==
    /\ draining
    /\ draining' = FALSE
    /\ natsConnected' = FALSE
    /\ nc' = "null"
    /\ connectionPromise' = "null"
    /\ subscribers' = {}
    /\ UNCHANGED <<attemptsInFlight, waiting, nextSubId, lastConnect, stopped,
                   invoked, subscriptions>>
    /\ UNCHANGED nonBusVars

\* NatsClient.subscribe(subject, callback): a new subscription object, set
\* as the entry of the map for the subject, and its message loop started.
Subscribe(subject, callback) ==
    /\ nc # "null"
    /\ natsConnected
    /\ ~draining
    /\ nextSubId <= MaxSubscribes
    /\ subscribers' =
          {IF s.subject = subject THEN [s EXCEPT !.held = FALSE] ELSE s :
               s \in subscribers}
          \cup {Subscription(nextSubId, subject, callback, TRUE)}
    /\ subscriptions' = subscriptions \cup {subject}
    /\ nextSubId' = nextSubId + 1
    /\ UNCHANGED <<nc, natsConnected, connectionPromise, attemptsInFlight, waiting,
                   draining, lastConnect, stopped, invoked>>
    /\ UNCHANGED nonBusVars

\* NatsClient.unsubscribe(subject) returning true: the entry of the map is
\* unsubscribed and deleted.
Unsubscribe(subject) ==
    /\ subject \in subscriptions
    /\ subscribers' = {s \in subscribers : ~(s.subject = subject /\ s.held)}
    /\ subscriptions' = subscriptions \ {subject}
    /\ stopped' = stopped \cup {s.id : s \in {t \in subscribers : t.subject = subject}}
    /\ invoked' = {}
    /\ UNCHANGED <<nc, natsConnected, connectionPromise, attemptsInFlight, waiting,
                   draining, nextSubId, lastConnect>>
    /\ UNCHANGED nonBusVars

\* A message arrives on the subject: every running message loop of a
\* subscription to it calls its callback.
Deliver(subject) ==
    /\ \E s \in subscribers : s.subject = subject
    /\ invoked' = {s.id : s \in {t \in subscribers : t.subject = subject}}
    /\ invoked' # invoked
    /\ UNCHANGED <<nc, natsConnected, connectionPromise, attemptsInFlight, waiting,
                   draining, subscribers, nextSubId, lastConnect, stopped,
                   subscriptions>>
    /\ UNCHANGED nonBusVars

----------------------------------------------------------------------------
(* Specifications *)

\* Rooms, reference counts and gated emits: two sockets, small batches.
Next ==
    \/ \E id \in Clients : Connection(id)
    \/ \E id \in Clients, room \in RoomNames : JoinRoom(id, room)
    \/ \E id \in Clients, room \in RoomNames : LeaveRoom(id, room)
    \/ \E id \in Clients : Disconnect(id)
    \/ \E payload \in RoomMessages : HandleUpstreamSensorBatch(payload)
    \/ \E payload \in RoomMessages : HandleContinuousSensorStream(payload)
    \/ \E payload \in RoomMessages : PowerFlowUpdate(payload)

Spec == Init /\ [][Next]_vars

\* Ingestion of batches with malformed entries: one socket.
NextIngest ==
    \/ Connection("s1")
    \/ \E room \in RoomNames : JoinRoom("s1", room)
    \/ \E room \in RoomNames : LeaveRoom("s1", room)
    \/ \E payload \in IngestMessages : HandleUpstreamSensorBatch(payload)
    \/ \E payload \in IngestMessages : HandleContinuousSensorStream(payload)

SpecIngest == Init /\ [][NextIngest]_vars

\* Carry-forward aggregation of SocketManager: one socket on 'power-flow'.
NextAgg ==
    \/ Connection("s1")
    \/ JoinRoom("s1", PowerFlowRoom)
    \/ LeaveRoom("s1", PowerFlowRoom)
    \/ \E payload \in AggMessages : HandleContinuousSensorStream(payload)

SpecAgg == Init /\ [][NextAgg]_vars

\* PowerFlowSocketService on the same batches.
NextPF ==
    \/ \E id \in Clients : Connection(id)
    \/ \E id \in Clients : Disconnect(id)
    \/ \E payload \in PFMessages : PowerFlowUpdate(payload)

SpecPF == Init /\ [][NextPF]_vars

\* The aggregate state under batches, failing ones included, interleaved
\* with the socket events of one client.
NextState ==
    \/ Connection("s1")
    \/ \E room \in RoomNames : JoinRoom("s1", room)
    \/ \E room \in RoomNames : LeaveRoom("s1", room)
    \/ Disconnect("s1")
    \/ \E payload \in StateMessages : HandleContinuousSensorStream(payload)

SpecState == Init /\ [][NextState]_vars

\* The process from start to exit: the bus client, one socket client and
\* graceful shutdown.
NextShutdown ==
    \/ NatsConnect
    \/ NatsSubscribe(NatsTopic)
    \/ Connection("s1")
    \/ \E room \in RoomNames : JoinRoom("s1", room)
    \/ \E payload \in RoomMessages : DeliverBatch(payload)
    \/ ShutdownSignal
    \/ ServerStopped
    \/ DatabaseClosed
    \/ NatsDisconnected

SpecShutdown == Init /\ [][NextShutdown]_vars

\* The bus client alone: connection attempts, closures and subscriptions.
NextBus ==
    \/ \E urlValid \in BOOLEAN : ClientConnect(urlValid)
    \/ ConnectSucceeds
    \/ ConnectFails
    \/ ConnectionClosed
    \/ ClientDisconnect
    \/ DrainDone
    \/ \E subject \in Subjects, callback \in Callbacks : Subscribe(subject, callback)
    \/ \E subject \in Subjects : Unsubscribe(subject)
    \/ \E subject \in Subjects : Deliver(subject)

SpecBus == Init /\ [][NextBus]_vars

\* Device tables: creation, deletion and changes of the blueprint directory.
NextTables ==
    \/ \E deviceName \in {NameInv, NameDash}, reference \in References,
          fault \in StoreFaults :
            CreateDeviceTable(deviceName, reference, fault)
    \/ \E deviceName \in {NameInv, NameDash} : DeleteDeviceTable(deviceName)
    \/ \E reference \in References :
          \E document \in BlueprintsOf(reference) :
            BlueprintChange(reference, document)

SpecTables == Init /\ [][NextTables]_vars

\* The aggregate payloads of both services, with a client on 'power-flow'.
NextStatus ==
    \/ Connection("s1")
    \/ JoinRoom("s1", PowerFlowRoom)
    \/ \E payload \in StatusMessages : HandleContinuousSensorStream(payload)
    \/ \E payload \in StatusMessages : PowerFlowUpdate(payload)

SpecStatus == Init /\ [][NextStatus]_vars

\* The blueprint cache over time: lookups made by createDeviceTable, changes
\* of the blueprint directory and the clock.
NextCache ==
    \/ \E reference \in References : CreateDeviceTable(NameInv, reference, "none")
    \/ \E reference \in References :
          \E document \in BlueprintsOf(reference) :
            BlueprintChange(reference, document)
    \/ Tick

SpecCache == Init /\ [][NextCache]_vars

\* Device tables of devices whose names differ only in characters that the
\* derivation of the table name replaces.
NextNames ==
    \/ \E deviceName \in TableDevices, reference \in References :
            CreateDeviceTable(deviceName, reference, "none")
    \/ \E deviceName \in TableDevices : DeleteDeviceTable(deviceName)

SpecNames == Init /\ [][NextNames]_vars

\* The device list under addDevice, updateDevice and deleteDevice, with the
\* faults of the store.
NextDevices ==
    \/ \E deviceName \in {NameInv, NameDash}, reference \in References,
          fault \in StoreFaults :
            AddDevice(deviceName, reference, fault)
    \/ \E deviceName \in {NameInv, NameDash}, newName \in {NameInv, NameDash},
          reference \in References, fault \in StoreFaults :
            UpdateDevice(deviceName, newName, reference, fault)
    \/ \E deviceName \in {NameInv, NameDash} : DeleteDevice(deviceName)

SpecDevices == Init /\ [][NextDevices]_vars

\* Reconciliation runs, deletions and changes of the blueprint directory.
NextReconcile ==
    \/ \E devices \in ConfigLists : CheckAndCreateTables(devices)
    \/ \E deviceName \in {NameInv, NameDash} : DeleteDeviceTable(deviceName)
    \/ \E reference \in References :
          \E document \in BlueprintsOf(reference) :
            BlueprintChange(reference, document)

SpecReconcile == Init /\ [][NextReconcile]_vars

\* The aggregate history: insertions, the clock, retention and range reads.
NextHistory ==
    \/ \E timestamp \in BatchTimestamps : InsertHistoryRow(timestamp)
    \/ Tick
    \/ \E retentionDays \in RetentionChoices, fails \in BOOLEAN :
            CleanupOldData(retentionDays, fails)
    \/ \E window \in HistoryWindows : GetPowerFlowHistory(window)
    \/ \E outcome \in StoreOutcomes : QueryAnswered(outcome)
    \/ RetryTimerFires

SpecHistory == Init /\ [][NextHistory]_vars

\* A range read under store errors: the store answers every attempt and
\* the timer of a retry fires.
NextRead ==
    \/ \E timestamp \in BatchTimestamps : InsertHistoryRow(timestamp)
    \/ \E window \in HistoryWindows : GetPowerFlowHistory(window)
    \/ \E outcome \in StoreOutcomes : QueryAnswered(outcome)
    \/ RetryTimerFires

SpecRead ==
    /\ Init
    /\ [][NextRead]_vars
    /\ WF_vars(\E outcome \in StoreOutcomes : QueryAnswered(outcome))
    /\ WF_vars(RetryTimerFires)

----------------------------------------------------------------------------
(* Properties of the aggregation *)

\* C1: carry-forward. A category absent from the fresh data of a batch is
\* reported, in every aggregate snapshot of that batch ('power-flow-data'
\* and 'power-flow-update'), with the value of the previous snapshot, and
\* with 0 when there was none.
C1_CarryForwardEverySnapshot ==
    [][/\ \A cat \in Categories :
            cat \notin pfLast'.receivedDevices => pfLast'[cat] = pfLast[cat]
       /\ \A cat \in Categories :
            cat \notin updLast'.receivedDevices => updLast'[cat] = updLast[cat]]_vars

\* C2: load == solar + grid + genset on the rounded values of every
\* snapshot, of the carry-forward path and of the shared utility.
C2_LoadIsSumOfRounded ==
    /\ pfLast.present => pfLast.load = pfLast.solar + pfLast.grid + pfLast.genset
    /\ updLast.present =>
           updLast.load = updLast.solar + updLast.grid + updLast.genset

\* C3, as amended: a category with fresh data in batch B has, in
\* snapshot(B), the sum of the resolved powers of all its devices in B,
\* rounded to 2 decimals, whatever the previous total was.
C3_FreshTotalIsRoundedSum ==
    pfLast.present =>
        \A cat \in pfLast.receivedDevices : pfLast[cat] = Round2(lastSums[cat])

\* C3, as stated: the total equals the sum of the resolved powers.
C3_FreshTotalIsSum ==
    pfLast.present =>
        \A cat \in pfLast.receivedDevices : pfLast[cat] = lastSums[cat]

\* C3 witness: two solar devices (W = 100 and the phase sum 30) reported in
\* one batch and the snapshot carries their sum.
C3_Witness ==
    /\ pfLast.present
    /\ "solar" \in pfLast.receivedDevices
    /\ lastSums.solar = 130000
    /\ pfLast.solar = 130000

\* C4: per-device power resolution. The power of a register map is W when
\* present and not null, else the sum of the non-null phases when all three
\* are present; a device without data marks no category fresh and the
\* carried-forward total of its category is not replaced because of it.
C4_PowerResolution ==
    /\ \A entry \in AggEntries :
          calculateDevicePower(entry.register) = powerBySpec(entry.register)
    /\ [][\A cat \in Categories \ lastContrib' :
            /\ cat \notin pfLast'.receivedDevices
            /\ pfLast'[cat] = pfLast[cat]]_vars

----------------------------------------------------------------------------
(* Properties of the rooms and of the ingestion *)

isRoomEmit(rec) == rec.event \in {"sensor-data", "power-flow-data"}
isAggregateEmit(rec) == rec.event \in {"power-flow-data", "power-flow-update"}

\* C5: an emit to a room returns false and delivers nothing when the room
\* has no subscriber, delivers to all members and returns true otherwise;
\* it returns true whenever the room's reference count is >= 1 and false
\* whenever the room key is absent from the registry.
C5_EmitFollowsSubscribers ==
    \A i \in 1..Len(emitted) :
        isRoomEmit(emitted[i]) =>
            /\ membersOf(adapterRooms, emitted[i].room) = {} =>
                   ~emitted[i].ret /\ emitted[i].to = {}
            /\ membersOf(adapterRooms, emitted[i].room) # {} =>
                   emitted[i].ret
                   /\ emitted[i].to = membersOf(adapterRooms, emitted[i].room)
            /\ isSensorRoom(emitted[i].room) =>
                   /\ refCount(sensorRefCounts, deviceNameOf(emitted[i].room)) >= 1
                          => emitted[i].ret
                   /\ deviceNameOf(emitted[i].room) \notin DOMAIN sensorRefCounts
                          => ~emitted[i].ret

\* C6: for every room key, the stored reference count is the value obtained
\* by adding 1 on each join and applying max(0, n - 1) on each leave; it is
\* never negative and the key is in the registry exactly when it is > 0.
C6_RefCountFollowsJoinLeave ==
    /\ DOMAIN sensorRefCounts \subseteq DeviceKeys
    /\ \A d \in DeviceKeys :
          /\ expectedRef[d] >= 0
          /\ d \in DOMAIN sensorRefCounts <=> expectedRef[d] > 0
          /\ d \in DOMAIN sensorRefCounts => sensorRefCounts[d] = expectedRef[d]

\* C6 witness: a leave that leaves the count of Inv1 at 1, key present
\* (at least two joins came before it).
C6_Witness ==
    /\ lastOp.op = "leave-room"
    /\ lastOp.room = sensorRoom("Inv1")
    /\ "Inv1" \in DOMAIN sensorRefCounts
    /\ sensorRefCounts["Inv1"] = 1
    /\ expectedRef["Inv1"] = 1

\* The entries a batch must dispatch: a device name and a register map.
isWellFormed(entry) ==
    ~entry.isNull /\ entryMeta(entry).device_name # ""
    /\ entry.register.kind = "object"

\* How many sensor-data events of the log reached socket id in room `room`
\* with register map `register`.
receivedCount(log, id, room, register) ==
    Cardinality({k \in 1..Len(log) :
                    /\ log[k].event = "sensor-data"
                    /\ log[k].room = room
                    /\ log[k].sensor.register = register
                    /\ id \in log[k].to})

\* How many well-formed entries of the batch carry that device and map.
sentCount(data, deviceName, register) ==
    Cardinality({j \in 1..Len(data) :
                    /\ isWellFormed(data[j])
                    /\ entryMeta(data[j]).device_name = deviceName
                    /\ data[j].register = register})

\* The claim of C7 on one handled batch and the log it left.
exactlyOncePerMember(data, log) ==
    \A i \in 1..Len(data) :
        isWellFormed(data[i]) =>
            \A id \in Clients :
                LET d == entryMeta(data[i]).device_name
                IN /\ id \in membersOf(adapterRooms, sensorRoom(d)) =>
                          receivedCount(log, id, sensorRoom(d), data[i].register)
                              = sentCount(data, d, data[i].register)
                   /\ sensorRoom(d) \notin everJoined[id] =>
                          receivedCount(log, id, sensorRoom(d), data[i].register) = 0

\* C7: for each batch entry with a device name d and a register map, every
\* member of sensor:d receives exactly one sensor-data event carrying that
\* map, and a socket that never joined sensor:d receives none.
C7_ExactlyOnePerMember ==
    [][\A payload \in IngestMessages :
          /\ HandleContinuousSensorStream(payload)
                 => exactlyOncePerMember(payload.data, emitted')
          /\ HandleUpstreamSensorBatch(payload)
                 => exactlyOncePerMember(payload.data, emitted')]_vars

\* C8: the aggregate snapshot goes out only through the existence check on
\* room 'power-flow': no aggregate event when the room has no member, and
\* none to a connected socket that never joined 'power-flow'.
C8_AggregateOnlyToPowerFlowRoom ==
    \A i \in 1..Len(emitted) :
        isAggregateEmit(emitted[i]) =>
            /\ membersOf(adapterRooms, PowerFlowRoom) = {} => emitted[i].to = {}
            /\ \A id \in connectedClients :
                  PowerFlowRoom \notin everJoined[id] => id \notin emitted[i].to

isSensorEmit(rec) == rec.event = "sensor-data"

\* The devices and register maps pushed, in order.
pushedOf(log) ==
    LET S == SelectSeq(log, isSensorEmit)
    IN [k \in 1..Len(S) |-> <<deviceNameOf(S[k].room), S[k].sensor.register>>]

\* The devices and register maps of the well-formed entries, in order.
wellFormedOf(data) ==
    LET S == SelectSeq(data, isWellFormed)
    IN [k \in 1..Len(S) |-> <<entryMeta(S[k]).device_name, S[k].register>>]

hasAggregate(log) == \E k \in 1..Len(log) : log[k].event = "power-flow-data"

\* C9: ingestion never aborts a batch. Whatever malformed entries a batch
\* holds and wherever they are, every well-formed entry is dispatched to
\* the raw push and the aggregation of the batch is performed.
C9_IngestionNeverAborts ==
    [][\A payload \in IngestMessages :
          /\ HandleContinuousSensorStream(payload)
                 => /\ pushedOf(emitted') = wellFormedOf(payload.data)
                    /\ hasAggregate(emitted')
          /\ HandleUpstreamSensorBatch(payload)
                 => pushedOf(emitted') = wellFormedOf(payload.data)]_vars

\* C10: a disconnect decrements by one (floored at zero, entry deleted at
\* zero) the count of every sensor room the socket was in, so that once
\* every socket has disconnected the registry holds no entry.
C10_DisconnectReleasesRooms ==
    [][\A id \in Clients :
          Disconnect(id) =>
              /\ \A d \in DeviceKeys :
                    refCount(sensorRefCounts', d) =
                        IF id \in membersOf(adapterRooms, sensorRoom(d))
                           /\ refCount(sensorRefCounts, d) > 0
                        THEN refCount(sensorRefCounts, d) - 1
                        ELSE refCount(sensorRefCounts, d)
              /\ connectedClients' = {} => DOMAIN sensorRefCounts' = {}]_vars

----------------------------------------------------------------------------
(* Properties of the device tables *)

LookupErrors == {"BlueprintNotFound", "SchemaIncomplete"}

\* C11: createDeviceTable is idempotent. A call is never refused because the
\* table exists: whenever the blueprint lookup succeeds and the store runs
\* the CREATE statement, it resolves with the table name derived from the
\* device name; the registry never holds two rows of one device, and holds
\* exactly one, naming that table, after a call whose statements all ran.
C11_CreateIsIdempotent ==
    /\ \A d \in TableDevices : Len(rowsOfDevice(deviceTables, d)) <= 1
    /\ lastCall.op = "createDeviceTable" =>
          /\ lastCall.error \notin LookupErrors /\ lastCall.fault # "create"
                => /\ lastCall.ok
                   /\ lastCall.tableName = tableNameOf(lastCall.deviceName)
          /\ lastCall.ok /\ lastCall.fault = "none"
                => /\ Len(rowsOfDevice(deviceTables, lastCall.deviceName)) = 1
                   /\ getDeviceTableName(deviceTables, lastCall.deviceName)
                          = lastCall.tableName

\* C11 witness: a successful call for a device whose table and registry
\* row were there before it, next to the row of another device.
C11_Witness ==
    /\ lastCall.op = "createDeviceTable"
    /\ lastCall.existed
    /\ lastCall.ok
    /\ lastCall.fault = "none"
    /\ Len(deviceTables) = 2
    /\ Len(rowsOfDevice(deviceTables, lastCall.deviceName)) = 1

\* The lookup of a reference gives a blueprint with registers.
hasValidBlueprint(cache, docs, reference) ==
    /\ loadBlueprint(cache, docs, reference).found
    /\ Len(loadBlueprint(cache, docs, reference).blueprint.registers) > 0

\* Every configured device of the list has its table registered.
allRegistered(rows, tables, devices) ==
    \A i \in 1..Len(devices) :
        isConfigured(devices[i]) => tableExists(rows, tables, devices[i].device_name)

\* C12: after a reconciliation run every configured device with a name, a
\* reference and a valid blueprint has a registered table, whatever the
\* other entries of the list are; a run over devices that all have their
\* table raises no error and changes neither the tables nor the registry;
\* the registry holds one row per device.
C12_ReconciliationCoversEveryDevice ==
    [][\A devices \in ConfigLists :
          CheckAndCreateTables(devices) =>
              /\ \A i \in 1..Len(devices) :
                    (/\ isConfigured(devices[i])
                     /\ hasValidBlueprint(blueprintCache, blueprintDocs,
                                          devices[i].reference))
                        => tableExists(deviceTables', physTables',
                                       devices[i].device_name)
              /\ allRegistered(deviceTables, physTables, devices)
                    => /\ ~lastReconcile'.threw
                       /\ physTables' = physTables
                       /\ deviceTables' = deviceTables
              /\ \A d \in TableDevices :
                    Len(rowsOfDevice(deviceTables', d)) <= 1]_vars

\* A failed lookup leaves the tables and the registry as they were.
lookupFailureChangesNothing ==
    lastCall'.op = "createDeviceTable" /\ lastCall'.error \in LookupErrors
        => physTables' = physTables /\ deviceTables' = deviceTables

C14_ColumnsFixedAtCreation ==
    [][\A t \in DOMAIN physTables \cap DOMAIN physTables' :
            physTables'[t] = physTables[t]]_vars

\* C14 witness: a successful call for a device whose table existed, with a
\* blueprint whose registers are not the columns the table has kept.
C14_Witness ==
    /\ lastCall.op = "createDeviceTable"
    /\ lastCall.ok
    /\ lastCall.existed
    /\ lastCall.tableName \in DOMAIN physTables
    /\ physTables[lastCall.tableName] # columnsOf(lastCall.matched)


----------------------------------------------------------------------------
\* Properties of the aggregate history

busyRun(n) == [i \in 1..n |-> "busy"]

\* The attempts of a call: every attempt but the last met SQLITE_BUSY.
retriedOnlyOnBusy(call) ==
    \A i \in 1..(Len(call.outcomes) - 1) : call.outcomes[i] = "busy"

\* The settlement of a call whose last attempt did not give the rows.
softFailureOf(call) ==
    call.result.settled = "resolved" /\ call.result.success = FALSE
        /\ call.result.data = <<>>
        /\ call.result.error = call.outcomes[Len(call.outcomes)]

C15_Bounded ==
    /\ Len(historyCall.outcomes) <= MaxRetries + 1
    /\ Len(historyCall.delays) <= MaxRetries
    /\ \A i \in DOMAIN historyCall.delays : historyCall.delays[i] = RetryDelayMs
    /\ retriedOnlyOnBusy(historyCall)
    /\ historyCall.result.settled \in {"pending", "resolved"}
    /\ historyCall.phase = "waiting" => historyCall.retryCount < MaxRetries
    /\ (historyCall.phase = "resolved"
            /\ historyCall.outcomes[Len(historyCall.outcomes)] # "rows")
         => softFailureOf(historyCall)

\* C15: a history read is attempted at most 1 + 3 times, retrying only on
\* SQLITE_BUSY and always after 1000 ms; when the retries are used up or
\* another error comes back it resolves with {success: false, error, data: []};
\* it never rejects, and every call in progress eventually resolves.
C15_ReadRetriesAreBoundedAndResolve ==
    /\ []C15_Bounded
    /\ (historyCall.phase \in {"querying", "waiting"})
           ~> (historyCall.phase = "resolved")

C15_Witness ==
    /\ historyCall.phase = "resolved"
    /\ historyCall.outcomes = busyRun(MaxRetries + 1)
    /\ historyCall.delays = [i \in 1..MaxRetries |-> RetryDelayMs]
    /\ historyCall.result = SoftFailure("busy")

\* The rows of a table content created at or after an instant.
notOlderThan(rows, cutoff) ==
    SelectSeq(rows, LAMBDA r : toSeconds(r.createdAt) >= toSeconds(cutoff))

\* C16: a successful cleanupOldData(retentionDays) leaves exactly the rows
\* created at or after now - retentionDays days, and reports the number of
\* rows it removed.
C16_CleanupKeepsRowsFromCutoff ==
    (lastCleanup.ran /\ lastCleanup.success) =>
        /\ lastCleanup.after = notOlderThan(lastCleanup.before, lastCleanup.cutoff)
        /\ lastCleanup.deletedRows
               = Len(lastCleanup.before) - Len(lastCleanup.after)

isAscendingInTime(data) ==
    \A i \in 1..(Len(data) - 1) : data[i].time <= data[i + 1].time

\* C17: the list of a successful history read is ascending in time.
C17_HistoryAscendingInTime ==
    (historyCall.phase = "resolved" /\ historyCall.result.success)
        => isAscendingInTime(historyCall.result.data)


----------------------------------------------------------------------------
\* Properties of the aggregate state

snapshotValues(snapshot) ==
    [solar |-> snapshot.solar, grid |-> snapshot.grid, genset |-> snapshot.genset,
     load |-> snapshot.load, receivedDevices |-> snapshot.receivedDevices]

\* The outcome of a second processing of a batch against the outcome of the
\* first: the same snapshot values, the same aggregate state.
reappliesBatch(first, again) ==
    /\ again.previous = first.previous
    /\ again.snapshot.present = first.snapshot.present
    /\ again.snapshot.present
         => snapshotValues(again.snapshot) = snapshotValues(first.snapshot)

\* The handler run on a batch, and run again on the state the first run left.
processedTwice(rooms, previous, payload, first) ==
    reappliesBatch(first, continuousStream(rooms, first.previous, payload))

\* C18: from every state, processing a batch and then the same batch again
\* gives the snapshot values of the first processing both times and leaves
\* previousPowerFlowData as the first processing left it.
C18_ReprocessingReappliesBatch ==
    \A payload \in StateMessages :
        processedTwice(adapterRooms, previousPowerFlowData, payload,
                       continuousStream(adapterRooms, previousPowerFlowData, payload))

\* A batch was processed whose snapshot has a fresh total and a carried one,
\* both different from zero.
C18_Witness ==
    /\ lastOp.op = "continuous-stream"
    /\ pfLast.present
    /\ previousPowerFlowData.solar = pfLast.solar
    /\ "solar" \in pfLast.receivedDevices /\ pfLast.solar # 0
    /\ "genset" \notin pfLast.receivedDevices /\ pfLast.genset # 0


\* previousPowerFlowData as one completed batch leaves it: the three totals
\* and the load of one snapshot.
stateOfSnapshot(snapshot) ==
    [solar |-> snapshot.solar, grid |-> snapshot.grid, genset |-> snapshot.genset,
     load |-> snapshot.load]

isWholeState(state, snapshot) ==
    /\ state.load = state.solar + state.grid + state.genset
    /\ state = IF snapshot.present THEN stateOfSnapshot(snapshot)
               ELSE [solar |-> 0, grid |-> 0, genset |-> 0, load |-> 0]

\* The handler that ran was a batch handler that raised before the
\* aggregation completed: it made no 'power-flow-data' call.
batchFailed(op, log) == op.op = "continuous-stream" /\ ~hasAggregate(log)

\* C19: between handlers previousPowerFlowData is whole: its four fields are
\* those of the last completed batch (zero before the first) and load is
\* solar + grid + genset, whatever socket events come between the batches;
\* a batch that fails and every socket event leave it unchanged.
C19_AggregateStateIsWhole ==
    /\ []isWholeState(previousPowerFlowData, pfLast)
    /\ [][(batchFailed(lastOp', emitted') \/ lastOp'.op # "continuous-stream")
            => previousPowerFlowData' = previousPowerFlowData]_vars

\* A batch failed after a completed one, with a client on 'power-flow'.
C19_Witness ==
    /\ batchFailed(lastOp, emitted)
    /\ pfLast.present
    /\ previousPowerFlowData.load # 0
    /\ previousPowerFlowData.genset # 0
    /\ hasListeners(adapterRooms, PowerFlowRoom)


----------------------------------------------------------------------------
\* Properties of graceful shutdown

\* Ingestion of bus messages is stopped.
ingestionStopped == subscriptions = {} /\ ~natsConnected

\* C20: on shutdown ingestion is stopped before the database is closed:
\* once db.close() is issued no subscription is left and the bus client is
\* disconnected, and no batch handler runs on a database that is not open.
C20_IngestionStopsBeforeStoresClose ==
    /\ [](dbState # "open" => ingestionStopped)
    /\ [][\A payload \in RoomMessages :
             DeliverBatch(payload) => dbState = "open"]_vars


----------------------------------------------------------------------------
\* Properties of the blueprint cache

\* The capacity of the cache by the design; the code sets none.
CacheCapacity == 1

\* The time to live of a cache entry by the design, in seconds of the
\* clock; the code sets none.
BlueprintTtl == 2

\* C21: the blueprint cache never holds more entries than its capacity.
C21_CacheIsBounded == Cardinality(DOMAIN blueprintCache) <= CacheCapacity

ageOf(stamps, reference, instant) ==
    toSeconds(instant) - toSeconds(stamps[reference])

\* C22: a lookup made more than the time to live after the entry of its
\* reference was cached returns what the directory holds for the reference.
C22_CacheEntriesExpire ==
    [][\A reference \in References :
          (/\ CreateDeviceTable(NameInv, reference, "none")
           /\ reference \in DOMAIN blueprintCache
           /\ ageOf(cachedAt, reference, now) > BlueprintTtl)
             => lastCall'.matched = blueprintDocs[reference]]_vars


----------------------------------------------------------------------------
\* Properties of the aggregate payload

\* The label of a value: the first of the pair when it is positive, the
\* second otherwise.
labelIs(label, value, positive, other) ==
    label = IF value > 0 THEN positive ELSE other

labelsFollowSign(flow) ==
    /\ labelIs(flow.status.solar, flow.solar, "Active", "Inactive")
    /\ labelIs(flow.status.grid, flow.grid, "Active", "Inactive")
    /\ labelIs(flow.status.genset, flow.genset, "Running", "Stopped")
    /\ labelIs(flow.status.load, flow.load, "Active", "No Load")

\* C23: in every aggregate payload, 'power-flow-data' and 'power-flow-update',
\* the label of each category follows from the positivity of the value of
\* that category in the same payload.
C23_StatusFollowsPositivity ==
    \A k \in 1..Len(emitted) :
        isAggregateEmit(emitted[k]) => labelsFollowSign(emitted[k].flow)

\* An aggregate payload with export on the grid and a running genset.
C23_Witness ==
    \E k \in 1..Len(emitted) :
        /\ isAggregateEmit(emitted[k])
        /\ emitted[k].flow.grid < 0
        /\ emitted[k].flow.status.grid = "Inactive"
        /\ emitted[k].flow.genset > 0
        /\ emitted[k].flow.status.genset = "Running"


----------------------------------------------------------------------------
\* Properties of skipped entries

\* A batch without the entries that ingestion skips for want of a device
\* name.
withoutNameless(payload) ==
    [payload EXCEPT !.data =
        SelectSeq(payload.data, LAMBDA e : e.isNull \/ entryDeviceName(e) # "")]

sameOutcome(a, b) ==
    a.log = b.log /\ a.previous = b.previous /\ a.snapshot = b.snapshot

\* C24: an entry without a device name contributes to nothing: the pushes,
\* the snapshot and the aggregate state a batch leaves are those of the batch
\* without its nameless entries.
C24_SkippedEntryContributesNothing ==
    [][\A payload \in IngestMessages :
          HandleContinuousSensorStream(payload)
            => sameOutcome(
                 continuousStream(adapterRooms, previousPowerFlowData, payload),
                 continuousStream(adapterRooms, previousPowerFlowData,
                                  withoutNameless(payload)))]_vars


----------------------------------------------------------------------------
\* Properties of the two records of room membership

\* The connected sockets that are members of the room of a device.
connectedMembers(rooms, connected, deviceName) ==
    membersOf(rooms, sensorRoom(deviceName)) \cap connected

\* C25: for every device the reference count of sensorRefCounts (absent = 0)
\* is the number of connected sockets in the room sensor:<device>.
C25_RefCountIsMembership ==
    \A d \in DeviceKeys :
        refCount(sensorRefCounts, d)
            = Cardinality(connectedMembers(adapterRooms, connectedClients, d))


----------------------------------------------------------------------------
\* Properties of the table names

distinctTableNames(rows) ==
    \A i, j \in 1..Len(rows) : i # j => rows[i].table_name # rows[j].table_name

\* Deleting the table of one device keeps the table of every other device.
deleteKeepsOthers(deviceName) ==
    \A other \in TableDevices \ {deviceName} :
        tableExists(deviceTables, physTables, other)
            => tableExists(deviceTables', physTables', other)

\* C26: distinct registered device names have distinct table names, and
\* deleteDeviceTable(x) never drops the table registered for another device.
C26_DistinctNamesDistinctTables ==
    /\ []distinctTableNames(deviceTables)
    /\ [][\A deviceName \in TableDevices :
             DeleteDeviceTable(deviceName) => deleteKeepsOthers(deviceName)]_vars


\* C27: when createDeviceTable resolves with a table name, the registry maps
\* the device to that name: a failed registry write is never a success.
C27_SuccessMeansRegistered ==
    (lastCall.op = "createDeviceTable" /\ lastCall.ok)
        => getDeviceTableName(deviceTables, lastCall.deviceName) = lastCall.tableName


----------------------------------------------------------------------------
\* Properties of the device list

\* C28: every device of the list has a registered table under its current
\* name, and every registered table belongs to a device of the list.
C28_ListAndRegistryAgree ==
    /\ \A i \in 1..Len(devicesList) :
          tableExists(deviceTables, physTables, devicesList[i].device_name)
    /\ \A k \in 1..Len(deviceTables) :
          findIndex(devicesList, deviceTables[k].device_name) # 0

\* C29: connection attempts never overlap, and a connect() call that
\* resolved with true found the client connected with a connection at that
\* moment.
C29_ConnectSingleFlightAndTruthful ==
    /\ attemptsInFlight <= 1
    /\ lastConnect.result = "true" =>
          (lastConnect.connected /\ lastConnect.nc # "null")

\* C30: a message that arrives after unsubscribe(subject) returned true calls
\* no callback of a subscription registered for the subject before it.
C30_UnsubscribeStopsEveryCallback ==
    invoked \cap stopped = {}

====
